---- MODULE Spec2Model ----
(***************************************************************************)
(* A model of the key-value server of src/app: the store (storage.py), the *)
(* command engine (command_handler.py), the session's frame parser         *)
(* (client_handler.py), the reply encoder (resp_protocol.py) and the       *)
(* master side of replication (replication.py).                            *)
(*                                                                         *)
(* Python values are tagged records: PyNone, PyStr(s), PyList(q),          *)
(* PyInt(n), PyRaise(e).  An optional expiry is <<>> (None) or <<ms>>.     *)
(***************************************************************************)
EXTENDS Integers, Sequences, FiniteSets, TLC

VARIABLES
  cache,               \* Storage._cache: key -> [val, exp]
  now,                 \* the wall clock, in milliseconds
  waiting_clients,     \* Storage._waiting_clients: key -> queue of events
  pc,                  \* position of each BLPOP caller in Storage.blpop
  tkey,                \* the key of each BLPOP caller's call
  ttimeout,            \* the timeout of each BLPOP caller's call
  tflag,               \* the flag of each caller's threading.Event
  tret,                \* what each caller's blpop returned
  tenq,                \* the rank of each caller's event among those enqueued
  last,                \* the last completed call: operation, arguments, result
  nops,                \* the number of calls made so far
  hist,                \* history of each key (what was set, pushed, popped)
  scen,                \* history of the last push onto an empty key with waiters
  role,                \* Replication.role
  replica_connections, \* Replication.replica_connections (a list)
  write_sequence,      \* Replication.write_sequence
  pending_acks,        \* Replication.pending_acks: sequence -> set of replicas
  replica_offsets,     \* Replication.replica_offsets
  sock,                \* what has been written to each connection, in order
  broken,              \* the connections whose next sendall raises
  session,             \* ClientHandler.handle of each connection: where it is
  wire,                \* the client of one connection, seen at the level of bytes
  replica,             \* the replica server at the far end of each connection
  calls,               \* the handler running on each connection, where it is
  sent                 \* for each write on a connection, the write sequence it carried

storeVars == <<cache, now>>
blockVars == <<waiting_clients, pc, tkey, ttimeout, tflag, tret, tenq, scen>>
histVars  == <<last, nops, hist>>
replVars  == <<role, replica_connections, write_sequence, pending_acks,
               replica_offsets, sock, broken, session, replica, calls, sent>>
vars == <<cache, now, waiting_clients, pc, tkey, ttimeout, tflag, tret, tenq, scen,
          last, nops, hist, role, replica_connections, write_sequence,
          pending_acks, replica_offsets, sock, broken, session, wire,
          replica, calls, sent>>

---------------------------------------------------------------------------
(* Bounds of the model *)
MaxTime   == 3     \* the clock runs from 0 to MaxTime
MaxOps    == 4     \* calls made in one behaviour of the store specifications
MaxBlockOps == 2   \* pushes and LPOPs made beside the BLPOP callers
MaxRange  == 4     \* LRANGE indices run from -MaxRange to MaxRange
MaxList   == 3     \* longest list drawn as an input of LRANGE

---------------------------------------------------------------------------
(* Python values *)
PyNone     == [t |-> "None"]
PyStr(s)   == [t |-> "str", x |-> s]
PyList(q)  == [t |-> "list", x |-> q]
PyInt(n)   == [t |-> "int", x |-> n]
PyRaise(e) == [t |-> "raise", x |-> e]

NoExpiry == <<>>
IsList(v) == v.t = "list"

Max(a, b) == IF a >= b THEN a ELSE b
Min(a, b) == IF a <= b THEN a ELSE b

RECURSIVE Reverse(_)
Reverse(q) == IF q = <<>> THEN <<>> ELSE Append(Reverse(Tail(q)), Head(q))

\* every sequence over S of length lo..hi
SeqsOf(S, lo, hi) == UNION {[1..n -> S] : n \in lo..hi}

\* a dict with key k bound to e, and with key k deleted
DictPut(d, k, e) == [x \in DOMAIN d \cup {k} |-> IF x = k THEN e ELSE d[x]]
DictDel(d, k)    == [x \in DOMAIN d \ {k} |-> d[x]]
EmptyDict        == [x \in {} |-> PyNone]

---------------------------------------------------------------------------
(* Text.  A Python str is the sequence of its code points and a bytes value
   the sequence of its bytes (0..255); Text(s) is the str written s. *)
Text(s) ==
  CASE s = "k1" -> <<107, 49>>
    [] s = "k2" -> <<107, 50>>
    [] s = "a" -> <<97>>
    [] s = "b" -> <<98>>
    [] s = "x" -> <<120>>
    [] s = "0" -> <<48>>
    [] s = "1" -> <<49>>
    [] s = "2" -> <<50>>
    [] s = "-1" -> <<45, 49>>
    [] s = "-2" -> <<45, 50>>
    [] s = "?" -> <<63>>
    [] s = "PX" -> <<80, 88>>
    [] s = "px" -> <<112, 120>>
    [] s = "OK" -> <<79, 75>>
    [] s = "SET" -> <<83, 69, 84>>
    [] s = "GET" -> <<71, 69, 84>>
    [] s = "RPUSH" -> <<82, 80, 85, 83, 72>>
    [] s = "PING" -> <<80, 73, 78, 71>>
    [] s = "capa" -> <<99, 97, 112, 97>>
    [] s = "psync2" -> <<112, 115, 121, 110, 99, 50>>
    [] s = "LPUSH" -> <<76, 80, 85, 83, 72>>
    [] s = "LLEN" -> <<76, 76, 69, 78>>
    [] s = "LRANGE" -> <<76, 82, 65, 78, 71, 69>>
    [] s = "PSYNC" -> <<80, 83, 89, 78, 67>>
    [] s = "set" -> <<115, 101, 116>>
    [] s = "get" -> <<103, 101, 116>>
    [] s = "rpush" -> <<114, 112, 117, 115, 104>>
    [] s = "lpush" -> <<108, 112, 117, 115, 104>>
    [] s = "llen" -> <<108, 108, 101, 110>>
    [] s = "lrange" -> <<108, 114, 97, 110, 103, 101>>
    [] s = "psync" -> <<112, 115, 121, 110, 99>>
    [] s = "echo" -> <<101, 99, 104, 111>>
    [] s = "ping" -> <<112, 105, 110, 103>>
    [] s = "keys" -> <<107, 101, 121, 115>>
    [] s = "config" -> <<99, 111, 110, 102, 105, 103>>
    [] s = "info" -> <<105, 110, 102, 111>>
    [] s = "replconf" -> <<114, 101, 112, 108, 99, 111, 110, 102>>
    [] s = "wait" -> <<119, 97, 105, 116>>
    [] s = "$-1" -> <<36, 45, 49>>
    [] s = "*0" -> <<42, 48>>
    [] s = "*1" -> <<42, 49>>
    [] s = "*2" -> <<42, 50>>
    [] s = "*3" -> <<42, 51>>
    [] s = "$3" -> <<36, 51>>
    [] s = "*" -> <<42>>
    [] s = "$" -> <<36>>
    [] s = ":" -> <<58>>
    [] s = "+" -> <<43>>
    [] s = "'" -> <<39>>
    [] s = "[" -> <<91>>
    [] s = "]" -> <<93>>
    [] s = ", " -> <<44, 32>>
    [] s = "-ERR " -> <<45, 69, 82, 82, 32>>
    [] s = "wrong number of arguments for " -> <<119, 114, 111, 110, 103, 32, 110, 117, 109, 98, 101, 114, 32, 111, 102, 32, 97, 114, 103, 117, 109, 101, 110, 116, 115, 32, 102, 111, 114, 32>>
    [] s = " command" -> <<32, 99, 111, 109, 109, 97, 110, 100>>
    [] s = "unknown command '" -> <<117, 110, 107, 110, 111, 119, 110, 32, 99, 111, 109, 109, 97, 110, 100, 32, 39>>
    [] s = "value is not an integer or out of range" -> <<118, 97, 108, 117, 101, 32, 105, 115, 32, 110, 111, 116, 32, 97, 110, 32, 105, 110, 116, 101, 103, 101, 114, 32, 111, 114, 32, 111, 117, 116, 32, 111, 102, 32, 114, 97, 110, 103, 101>>
    [] s = "PSYNC not supported in this role" -> <<80, 83, 89, 78, 67, 32, 110, 111, 116, 32, 115, 117, 112, 112, 111, 114, 116, 101, 100, 32, 105, 110, 32, 116, 104, 105, 115, 32, 114, 111, 108, 101>>
    [] s = "+FULLRESYNC " -> <<43, 70, 85, 76, 76, 82, 69, 83, 89, 78, 67, 32>>
    [] s = " " -> <<32>>
    [] s = "WAIT" -> <<87, 65, 73, 84>>
    [] s = "REPLCONF" -> <<82, 69, 80, 76, 67, 79, 78, 70>>
    [] s = "GETACK" -> <<71, 69, 84, 65, 67, 75>>
    [] s = "ACK" -> <<65, 67, 75>>
    [] s = "$8" -> <<36, 56>>
    [] s = "$6" -> <<36, 54>>
    [] s = "$1" -> <<36, 49>>
    [] s = "3" -> <<51>>
    [] s = "5" -> <<53>>
    [] s = "y" -> <<121>>

\* constants.py: CRLF
CRLF == <<13, 10>>

(* The inputs the operations are tried on *)
Keys      == {Text("k1"), Text("k2")}
Values    == {Text("a"), Text("b")}
PushArgs  == {<<Text("a")>>, <<Text("b"), Text("a")>>}
PopCounts == {1, 3}

---------------------------------------------------------------------------
(* Storage (storage.py).  Each operator gives the cache after the call and *)
(* what the call returns.                                                  *)

\* Storage.set
StorageSet(c, k, v, e) == DictPut(c, k, [val |-> PyStr(v), exp |-> e])

\* Expired with the comparison made >= instead of >
ExpiredAtInstant(e, t) == e # NoExpiry /\ t >= e[1]

\* the comparison of Storage.get: the key has expired at time t
Expired(e, t) == e # NoExpiry /\ t > e[1]

\* Storage.get: an expired key is deleted and read as missing
StorageGet(c, k, t) ==
  IF k \notin DOMAIN c THEN [cache |-> c, ret |-> PyNone]
  ELSE IF Expired(c[k].exp, t) THEN [cache |-> DictDel(c, k), ret |-> PyNone]
  ELSE [cache |-> c, ret |-> c[k].val]

\* Storage.delete
StorageDelete(c, k) ==
  IF k \in DOMAIN c THEN [cache |-> DictDel(c, k), ret |-> TRUE]
  ELSE [cache |-> c, ret |-> FALSE]

\* the list a push starts from: [] for a missing key, the list of a list
\* key, and [s] for a key that holds the string s
PushBase(c, k) ==
  IF k \in DOMAIN c
  THEN [l |-> IF IsList(c[k].val) THEN c[k].val.x ELSE <<c[k].val.x>>,
        exp |-> c[k].exp]
  ELSE [l |-> <<>>, exp |-> NoExpiry]

\* StorageRpush that appends only the last of the values given
StorageRpushLastOnly(c, k, values) ==
  LET b == PushBase(c, k)
      l == Append(b.l, values[Len(values)])
  IN [cache |-> DictPut(c, k, [val |-> PyList(l), exp |-> b.exp]),
      ret |-> Len(l)]

\* Storage.rpush without its notification
StorageRpush(c, k, values) ==
  LET b == PushBase(c, k)
      l == b.l \o values
  IN [cache |-> DictPut(c, k, [val |-> PyList(l), exp |-> b.exp]),
      ret |-> Len(l)]

\* StorageLpush that puts the values in front in the order given
StorageLpushInOrder(c, k, values) ==
  LET b == PushBase(c, k)
      l == values \o b.l
  IN [cache |-> DictPut(c, k, [val |-> PyList(l), exp |-> b.exp]),
      ret |-> Len(l)]

\* Storage.lpush without its notification
StorageLpush(c, k, values) ==
  LET b == PushBase(c, k)
      l == Reverse(values) \o b.l
  IN [cache |-> DictPut(c, k, [val |-> PyList(l), exp |-> b.exp]),
      ret |-> Len(l)]

\* Storage.lrange
StorageLrange(c, k, start, stop) ==
  IF k \notin DOMAIN c THEN <<>>
  ELSE IF ~IsList(c[k].val) THEN <<>>
  ELSE LET value == c[k].val.x
           n  == Len(value)
           s1 == IF start < 0 THEN Max(0, n + start) ELSE start
           e1 == IF stop < 0 THEN Max(0, n + stop) ELSE stop
           e2 == Min(e1, n - 1)
       IN IF s1 > e2 \/ s1 >= n THEN <<>>
          ELSE SubSeq(value, s1 + 1, e2 + 1)

\* Storage.llen
StorageLlen(c, k) ==
  IF k \notin DOMAIN c THEN 0
  ELSE IF ~IsList(c[k].val) THEN 0
  ELSE Len(c[k].val.x)

\* StorageLpop that leaves a last remaining element as a string
StorageLpopUnwraps(c, k, pop_count) ==
  IF k \notin DOMAIN c THEN [cache |-> c, ret |-> PyNone]
  ELSE IF ~IsList(c[k].val) THEN [cache |-> c, ret |-> PyNone]
  ELSE LET value == c[k].val.x
           n  == Len(value)
           m  == Min(Max(pop_count, 0), n)
       IN [cache |-> DictPut(c, k, [val |-> IF n - m = 1 THEN PyStr(value[n])
                                            ELSE PyList(SubSeq(value, m + 1, n)),
                                    exp |-> c[k].exp]),
           ret |-> PyList(SubSeq(value, 1, m))]

\* Storage.lpop: value.pop(0) is done pop_count times on the list held by
\* the cache; popping from the emptied list raises IndexError
StorageLpop(c, k, pop_count) ==
  IF k \notin DOMAIN c THEN [cache |-> c, ret |-> PyNone]
  ELSE IF ~IsList(c[k].val) THEN [cache |-> c, ret |-> PyNone]
  ELSE LET value == c[k].val.x
           n  == Len(value)
           m  == Min(Max(pop_count, 0), n)
           c2 == DictPut(c, k, [val |-> PyList(SubSeq(value, m + 1, n)),
                                exp |-> c[k].exp])
       IN IF pop_count > n
          THEN [cache |-> c2, ret |-> PyRaise("IndexError")]
          ELSE [cache |-> c2, ret |-> PyList(SubSeq(value, 1, m))]

\* the locked section of Storage.blpop that tries to pop the head
StorageTryPop(c, k) ==
  IF k \in DOMAIN c /\ IsList(c[k].val) /\ Len(c[k].val.x) > 0
  THEN LET value == c[k].val.x
       IN [cache |-> IF Len(value) = 1 THEN DictDel(c, k)
                     ELSE DictPut(c, k, [val |-> PyList(Tail(value)),
                                         exp |-> c[k].exp]),
           ok |-> TRUE,
           ret |-> PyList(<<k, Head(value)>>)]
  ELSE [cache |-> c, ok |-> FALSE, ret |-> PyNone]

---------------------------------------------------------------------------
(* The waiter queues of Storage and the BLPOP callers *)
Threads == {"t1", "t2", "t3"}

\* the connections accepted by the server
Conns == {"c1", "c2", "c3"}

\* NotifyWaiting that sets the event of every waiter of the key
NotifyWaitingAll(q) == [rest |-> <<>>, woken |-> {q[i] : i \in 1..Len(q)}]

\* Storage._notify_waiting_clients on the queue q of one key: the first
\* event is taken from the queue and set
NotifyWaiting(q) ==
  IF q # <<>> THEN [rest |-> Tail(q), woken |-> {Head(q)}]
  ELSE [rest |-> q, woken |-> {}]

\* the queue q without the event e (deque.remove, ValueError passed over)
RemoveEvent(q, e) ==
  IF \E i \in 1..Len(q) : q[i] = e
  THEN LET i == CHOOSE j \in 1..Len(q) : q[j] = e /\ \A h \in 1..(j-1) : q[h] # e
       IN SubSeq(q, 1, i - 1) \o SubSeq(q, i + 1, Len(q))
  ELSE q

---------------------------------------------------------------------------
(* Histories kept for the properties; no operation reads them *)
NoHist == [set |-> <<>>, pushed |-> 0, popped |-> 0, listOnly |-> TRUE,
           gone |-> FALSE]
NoScen == [on |-> FALSE, key |-> <<>>, vals |-> <<>>, waiters |-> {},
           clean |-> FALSE]
NoLast == [op |-> "none", key |-> <<>>, args |-> <<>>, ret |-> PyNone, at |-> 0,
           conn |-> "", log |-> <<>>, reps |-> {}, seq |-> 0]

\* the history of key k after a get that left the cache as c2: the counts
\* of a key that get removed start anew (what was set is kept)
HistAfterGet(c2, k) ==
  IF k \in DOMAIN hist /\ k \in DOMAIN cache /\ k \notin DOMAIN c2
  THEN [hist EXCEPT ![k] = [NoHist EXCEPT !.set = hist[k].set, !.gone = TRUE]]
  ELSE hist

\* a push on key k spoils the recorded scenario of k, unless it starts one
\* (the key is missing or empty and every queued caller is waiting)
ScenAfterPush(k, values) ==
  IF StorageLlen(cache, k) = 0 /\ (k \in DOMAIN cache => IsList(cache[k].val))
     /\ waiting_clients[k] # <<>>
     /\ \A t \in Threads : tkey[t] = k /\ pc[t] # "idle" /\ pc[t] # "done"
           => (pc[t] = "wait" /\ ~tflag[t]
               /\ \E i \in 1..Len(waiting_clients[k]) : waiting_clients[k][i] = t)
  THEN [on |-> TRUE, key |-> k, vals |-> values,
        waiters |-> {waiting_clients[k][i] : i \in 1..Len(waiting_clients[k])},
        clean |-> TRUE]
  ELSE IF scen.on /\ scen.key = k THEN [scen EXCEPT !.clean = FALSE]
  ELSE scen

\* any other operation that may take or add elements of key k
ScenSpoil(k) ==
  IF scen.on /\ scen.key = k THEN [scen EXCEPT !.clean = FALSE] ELSE scen

---------------------------------------------------------------------------
(* The operations of the store, each one call made by a session *)
Expiries == {NoExpiry, <<1>>, <<2>>}

Done(op, k, args, ret) ==
  /\ last' = [NoLast EXCEPT !.op = op, !.key = k, !.args = args, !.ret = ret,
                            !.at = now]
  /\ nops' = nops + 1

\* a call whose result no property reads
DoneQuiet(op, k) ==
  /\ last' = [NoLast EXCEPT !.op = op, !.key = k]
  /\ nops' = nops + 1

Set(k, v, e) ==
  /\ nops < MaxOps
  /\ cache' = StorageSet(cache, k, v, e)
  /\ hist' = [hist EXCEPT ![k] = [NoHist EXCEPT !.set = <<[v |-> v, exp |-> e]>>,
                                                 !.listOnly = FALSE]]
  /\ scen' = ScenSpoil(k)
  /\ DoneQuiet("set", k)
  /\ UNCHANGED <<now, waiting_clients, pc, tkey, ttimeout, tflag, tret, tenq>>
  /\ UNCHANGED <<replVars, wire>>

Get(k) ==
  /\ nops < MaxOps
  /\ LET r == StorageGet(cache, k, now)
     IN /\ cache' = r.cache
        /\ hist' = HistAfterGet(r.cache, k)
        /\ Done("get", k, <<>>, r.ret)
  /\ UNCHANGED <<now, blockVars, replVars, wire>>

Delete(k) ==
  /\ nops < MaxOps
  /\ LET r == StorageDelete(cache, k)
     IN /\ cache' = r.cache
        /\ hist' = [hist EXCEPT ![k] = NoHist]
        /\ DoneQuiet("delete", k)
  /\ scen' = ScenSpoil(k)
  /\ UNCHANGED <<now, waiting_clients, pc, tkey, ttimeout, tflag, tret, tenq>>
  /\ UNCHANGED <<replVars, wire>>

\* what rpush and lpush share: the cache is written, one waiter is notified
PushedStore(k, values, r) ==
  /\ cache' = r.cache
  /\ LET n == NotifyWaiting(waiting_clients[k])
     IN /\ waiting_clients' = [waiting_clients EXCEPT ![k] = n.rest]
        /\ tflag' = [t \in Threads |-> tflag[t] \/ t \in n.woken]
  /\ hist' = [hist EXCEPT ![k] = [@ EXCEPT !.set = <<>>, !.gone = FALSE,
                                          !.pushed = @ + Len(values)]]
  /\ scen' = ScenAfterPush(k, values)

Pushed(op, k, values, r) ==
  /\ PushedStore(k, values, r)
  /\ Done(op, k, values, PyInt(r.ret))
  /\ UNCHANGED <<now, pc, tkey, ttimeout, tret, tenq, replVars, wire>>

Rpush(k, values) ==
  /\ nops < MaxOps
  /\ Pushed("rpush", k, values, StorageRpush(cache, k, values))

Lpush(k, values) ==
  /\ nops < MaxOps
  /\ Pushed("lpush", k, values, StorageLpush(cache, k, values))

Llen(k) ==
  /\ nops < MaxOps
  /\ Done("llen", k, <<>>, PyInt(StorageLlen(cache, k)))
  /\ UNCHANGED <<storeVars, blockVars, hist, replVars, wire>>

Lpop(k, n) ==
  /\ nops < MaxOps
  /\ LET r == StorageLpop(cache, k, n)
     IN /\ cache' = r.cache
        /\ hist' = [hist EXCEPT ![k] =
                      [@ EXCEPT !.set = <<>>, !.gone = FALSE,
                                !.popped = @ + Min(Max(n, 0), StorageLlen(cache, k))]]
        /\ Done("lpop", k, <<n>>, r.ret)
  /\ scen' = ScenSpoil(k)
  /\ UNCHANGED <<now, waiting_clients, pc, tkey, ttimeout, tflag, tret, tenq>>
  /\ UNCHANGED <<replVars, wire>>

Tick ==
  /\ now < MaxTime
  /\ now' = now + 1
  /\ UNCHANGED <<cache, blockVars, histVars, replVars, wire>>

---------------------------------------------------------------------------
(* The state after construction *)
NoWire == [phase |-> "off", key |-> <<>>, val |-> <<>>, inbuf |-> <<>>]

\* RedisServer.__init__ of a replica, before its handshake; taken counts the
\* writes of the master it has received, out holds what it wrote back and
\* the master has not read, acks every reply it ever wrote; clean tells
\* whether the master had executed no write when the handshake ended
NoReplica ==
  [phase |-> "off", cache |-> EmptyDict, replication_offset |-> 0,
   first_getack_sent |-> FALSE, buffer |-> <<>>, taken |-> 0, out |-> <<>>,
   acks |-> <<>>, clean |-> FALSE]

\* no handler is running on the connection
NoCall == [pc |-> "idle", elems |-> <<>>, target |-> 0, start |-> 0, ret |-> 0]

InitStore ==
  /\ cache = EmptyDict
  /\ now = 0
  /\ waiting_clients = [k \in Keys |-> <<>>]
  /\ hist = [k \in Keys |-> NoHist]
  /\ last = NoLast
  /\ nops = 0

InitBlock ==
  /\ pc = [t \in Threads |-> "idle"]
  /\ tkey = [t \in Threads |-> <<>>]
  /\ ttimeout = [t \in Threads |-> 0]
  /\ tflag = [t \in Threads |-> FALSE]
  /\ tret = [t \in Threads |-> PyNone]
  /\ tenq = [t \in Threads |-> 0]
  /\ scen = NoScen

InitRepl ==
  /\ role = "master"
  /\ replica_connections = <<>>
  /\ write_sequence = 0
  /\ pending_acks = EmptyDict
  /\ replica_offsets = EmptyDict
  /\ sock = [c \in Conns |-> <<>>]
  /\ broken = {}
  /\ session = [c \in Conns |-> "open"]
  /\ replica = [c \in Conns |-> NoReplica]
  /\ calls = [c \in Conns |-> NoCall]
  /\ sent = [c \in Conns |-> <<>>]

Init == InitStore /\ InitBlock /\ InitRepl /\ wire = NoWire

(* The store used by one session: Storage's operations one after another *)
Next ==
  \/ \E k \in Keys, v \in Values, e \in Expiries : Set(k, v, e)
  \/ \E k \in Keys : Get(k)
  \/ \E k \in Keys : Delete(k)
  \/ \E k \in Keys, values \in PushArgs : Rpush(k, values)
  \/ \E k \in Keys, values \in PushArgs : Lpush(k, values)
  \/ \E k \in Keys : Llen(k)
  \/ \E k \in Keys, n \in PopCounts : Lpop(k, n)
  \/ Tick

Spec == Init /\ [][Next]_vars

---------------------------------------------------------------------------
(* C2: after set(k, v, expiry), every later get(k) returns v, whatever was
   done to other keys in between, as long as k was not written or deleted
   again and its expiry instant has not passed (the clock is not beyond it). *)
C2_GetReturnsWhatWasSet ==
  (/\ last.op = "get"
   /\ hist[last.key].set # <<>>
   /\ ~(hist[last.key].set[1].exp # <<>> /\ last.at > hist[last.key].set[1].exp[1]))
  => last.ret = PyStr(hist[last.key].set[1].v)

\* a get at the very expiry instant returns the value, after a push on
\* the other key
C2_Witness ==
  /\ last.op = "get"
  /\ hist[last.key].set # <<>>
  /\ hist[last.key].set[1].exp = <<last.at>>
  /\ last.ret = PyStr(hist[last.key].set[1].v)
  /\ \E k \in Keys \ {last.key} : hist[k].pushed > 0

(* C8: for a key that holds a list and was only ever pushed to and popped
   from, LLEN equals the number of elements pushed minus the number of
   elements popped (an LPOP of n from a list of L elements pops min(n, L)). *)
C8_LlenIsPushedMinusPopped ==
  \A k \in Keys :
    hist[k].listOnly => StorageLlen(cache, k) = hist[k].pushed - hist[k].popped

C8_Witness ==
  \E k \in Keys :
    /\ hist[k].listOnly
    /\ hist[k].popped >= 1
    /\ hist[k].pushed >= hist[k].popped + 2
    /\ StorageLlen(cache, k) >= 2

---------------------------------------------------------------------------
(* Storage.lrange as a function of the stored value and the two indices:
   the store holds nothing, a string, an emptied list or a list under "k1",
   and lrange is called with every pair of indices. *)
Lrange(k, start, stop) ==
  /\ last' = [NoLast EXCEPT !.op = "lrange", !.key = k, !.args = <<start, stop>>,
                            !.ret = PyList(StorageLrange(cache, k, start, stop)),
                            !.at = now]
  /\ UNCHANGED <<storeVars, blockVars, nops, hist, replVars, wire>>

LrangeStores ==
  {EmptyDict}
  \cup {StorageSet(EmptyDict, Text("k1"), v, NoExpiry) : v \in Values}
  \cup {StorageLpop(StorageRpush(EmptyDict, Text("k1"), <<Text("a")>>).cache, Text("k1"), 1).cache}
  \cup {StorageRpush(EmptyDict, Text("k1"), q).cache : q \in SeqsOf(Values, 1, MaxList)}

InitLrange ==
  /\ cache \in LrangeStores
  /\ now = 0
  /\ waiting_clients = [k \in Keys |-> <<>>]
  /\ hist = [k \in Keys |-> NoHist]
  /\ last = NoLast
  /\ nops = 0
  /\ InitBlock /\ InitRepl /\ wire = NoWire

NextLrange ==
  \E k \in Keys, start \in -MaxRange..MaxRange, stop \in -MaxRange..MaxRange :
    Lrange(k, start, stop)

SpecLrange == InitLrange /\ [][NextLrange]_vars

(* C9: lrange(k, start, stop) on a list of length L returns the elements at
   positions p with s <= p <= e, in list order, where a negative index x
   is first mapped to L + x, then s is clamped up to 0 and e down to L - 1;
   the result is empty when s > e, when k is missing and when k is not a
   list. *)
C9_LrangeAsClaimed ==
  last.op = "lrange" =>
    LET k == last.key
        isl == k \in DOMAIN cache /\ IsList(cache[k].val)
        l  == IF isl THEN cache[k].val.x ELSE <<>>
        n  == Len(l)
        s0 == IF last.args[1] < 0 THEN n + last.args[1] ELSE last.args[1]
        e0 == IF last.args[2] < 0 THEN n + last.args[2] ELSE last.args[2]
        s  == IF s0 < 0 THEN 0 ELSE s0
        e  == IF e0 > n - 1 THEN n - 1 ELSE e0
    IN last.ret = PyList(IF isl /\ s <= e
                         THEN [i \in 1..(e - s + 1) |-> l[s + i]]
                         ELSE <<>>)

---------------------------------------------------------------------------
(* Storage.blpop, called by concurrent sessions.  Each step is one section
   of blpop run under Storage._lock, or the end of its event.wait. *)
Timeouts == {0, 1}
BKeys    == {Text("k1")}

\* blpop, first section: pop at once if the list has an element
BlpopCall(t, k, timeout) ==
  /\ pc[t] = "idle"
  /\ LET r == StorageTryPop(cache, k)
     IN /\ cache' = r.cache
        /\ pc' = [pc EXCEPT ![t] = IF r.ok THEN "done" ELSE "enqueue"]
        /\ tret' = [tret EXCEPT ![t] = r.ret]
  /\ tkey' = [tkey EXCEPT ![t] = k]
  /\ ttimeout' = [ttimeout EXCEPT ![t] = timeout]
  /\ scen' = ScenSpoil(k)
  /\ UNCHANGED <<now, waiting_clients, tflag, tenq, histVars, replVars, wire>>

\* blpop: a new event is appended to the queue of the key
BlpopEnqueue(t) ==
  /\ pc[t] = "enqueue"
  /\ waiting_clients' = [waiting_clients EXCEPT ![tkey[t]] = Append(@, t)]
  /\ tenq' = [tenq EXCEPT ![t] = 1 + Cardinality({u \in Threads : tenq[u] > 0})]
  /\ pc' = [pc EXCEPT ![t] = "wait"]
  /\ UNCHANGED <<storeVars, tkey, ttimeout, tflag, tret, scen, histVars,
                 replVars, wire>>

\* blpop: event.wait returned because the event was set; the pop is tried
\* once more and blpop returns its result, or None
BlpopWake(t) ==
  /\ pc[t] = "wait"
  /\ tflag[t]
  /\ LET r == StorageTryPop(cache, tkey[t])
     IN /\ cache' = r.cache
        /\ tret' = [tret EXCEPT ![t] = r.ret]
  /\ pc' = [pc EXCEPT ![t] = "done"]
  /\ UNCHANGED <<now, waiting_clients, tkey, ttimeout, tflag, tenq, scen,
                 histVars, replVars, wire>>

\* blpop with a timeout: event.wait(timeout) returned False
BlpopTimeout(t) ==
  /\ pc[t] = "wait"
  /\ ttimeout[t] > 0
  /\ ~tflag[t]
  /\ pc' = [pc EXCEPT ![t] = "timedout"]
  /\ UNCHANGED <<storeVars, waiting_clients, tkey, ttimeout, tflag, tret, tenq,
                 scen, histVars, replVars, wire>>

\* BlpopRemove that returns None and leaves the event in the queue
BlpopRemoveLeaves(t) ==
  /\ pc[t] = "timedout"
  /\ tret' = [tret EXCEPT ![t] = PyNone]
  /\ pc' = [pc EXCEPT ![t] = "done"]
  /\ UNCHANGED <<storeVars, waiting_clients, tkey, ttimeout, tflag, tenq, scen,
                 histVars, replVars, wire>>

\* blpop after a timeout: the event is removed from the queue, None returned
BlpopRemove(t) ==
  /\ pc[t] = "timedout"
  /\ waiting_clients' = [waiting_clients EXCEPT ![tkey[t]] = RemoveEvent(@, t)]
  /\ tret' = [tret EXCEPT ![t] = PyNone]
  /\ pc' = [pc EXCEPT ![t] = "done"]
  /\ UNCHANGED <<storeVars, tkey, ttimeout, tflag, tenq, scen, histVars,
                 replVars, wire>>

NextBlpop ==
  \/ \E t \in Threads, k \in BKeys, timeout \in Timeouts : BlpopCall(t, k, timeout)
  \/ \E t \in Threads : BlpopEnqueue(t)
  \/ \E t \in Threads : BlpopWake(t)
  \/ \E t \in Threads : BlpopTimeout(t)
  \/ \E t \in Threads : BlpopRemove(t)
  \/ \E k \in BKeys, values \in PushArgs : nops < MaxBlockOps /\ Rpush(k, values)
  \/ \E k \in BKeys, values \in PushArgs : nops < MaxBlockOps /\ Lpush(k, values)
  \/ \E k \in BKeys, n \in PopCounts : nops < MaxBlockOps /\ Lpop(k, n)

SpecBlpop == Init /\ [][NextBlpop]_vars

\* the callers of the recorded push that got an element, and those whose
\* event is set and who did not run yet
ScenWinners == {t \in scen.waiters : pc[t] = "done" /\ tret[t] # PyNone}
ScenPending == {t \in scen.waiters : pc[t] = "wait" /\ tflag[t]}

(* C4: with N >= 2 BLPOP callers blocked on an empty or missing key k and a
   single RPUSH k v of one element (and no other pop, push or new caller on
   k), exactly one of them returns [k, v] once the signalled caller has
   run; no caller returns any other value, at most one is signalled, and
   every other caller is still blocked (a caller with a timeout may instead
   have timed out and returned None). *)
C4_OneWaiterServed ==
  (scen.on /\ scen.clean /\ Len(scen.vals) = 1 /\ Cardinality(scen.waiters) >= 2)
  => /\ \A t \in ScenWinners : tret[t] = PyList(<<scen.key, scen.vals[1]>>)
     /\ Cardinality(ScenWinners) <= 1
     /\ Cardinality(ScenWinners \cup ScenPending) = 1
     /\ \A t \in scen.waiters \ (ScenWinners \cup ScenPending) :
          \/ pc[t] = "wait" /\ ~tflag[t]
          \/ ttimeout[t] > 0 /\ pc[t] = "timedout" /\ ~tflag[t]
          \/ ttimeout[t] > 0 /\ pc[t] = "done" /\ tret[t] = PyNone

\* three callers were blocked, one has returned [k, v], two are blocked
C4_Witness ==
  /\ scen.on /\ scen.clean /\ Len(scen.vals) = 1
  /\ Cardinality(scen.waiters) = 3
  /\ Cardinality(ScenWinners) = 1
  /\ \A t \in ScenWinners : tret[t] = PyList(<<scen.key, scen.vals[1]>>)
  /\ \A t \in scen.waiters \ ScenWinners : pc[t] = "wait" /\ ~tflag[t]

(* C5: a blpop(k, 0) call never returns null: it returns [k, element] or is
   still blocked. *)
C5_NoTimeoutNeverNull ==
  \A t \in Threads :
    (pc[t] = "done" /\ ttimeout[t] = 0) => tret[t] # PyNone

(* C6: if caller A enqueued its waiter on key k before caller B did, B never
   receives an element of k while A is still blocked on k (A's call has not
   returned). *)
C6_ServedInFifoOrder ==
  \A a, b \in Threads :
    (/\ a # b /\ tkey[a] = tkey[b]
     /\ tenq[a] > 0 /\ tenq[a] < tenq[b]
     /\ pc[b] = "done" /\ tret[b] # PyNone)
    => pc[a] # "wait"

(* C7: a single push of m elements onto an empty or missing key with w
   blocked waiters signals one waiter per element: once the signalled
   callers have run, min(m, w) waiters have returned an element, and no
   waiter stays blocked while elements of that push remain in the list. *)
C7_OneWaiterPerElement ==
  (/\ scen.on /\ scen.clean
   /\ ScenPending = {}
   /\ \A t \in scen.waiters : pc[t] = "wait" \/ (pc[t] = "done" /\ tret[t] # PyNone))
  => /\ Cardinality(ScenWinners)
          = Min(Len(scen.vals), Cardinality(scen.waiters))
     /\ ~(\E t \in scen.waiters :
            pc[t] = "wait" /\ StorageLlen(cache, scen.key) > 0)

---------------------------------------------------------------------------
(* The str and bytes operations of Python used by the session, the command
   handlers and the reply encoder *)

\* str.lower and str.upper, on the letters A-Z and a-z
Lower(s) == [i \in 1..Len(s) |-> IF s[i] \in 65..90 THEN s[i] + 32 ELSE s[i]]
Upper(s) == [i \in 1..Len(s) |-> IF s[i] \in 97..122 THEN s[i] - 32 ELSE s[i]]

\* the characters str.strip removes, among the code points below 256
IsSpace(c) == c \in {9, 10, 11, 12, 13, 28, 29, 30, 31, 32, 133, 160}

RECURSIVE LStrip(_)
LStrip(s) == IF s # <<>> /\ IsSpace(s[1]) THEN LStrip(Tail(s)) ELSE s

RECURSIVE RStrip(_)
RStrip(s) ==
  IF s # <<>> /\ IsSpace(s[Len(s)]) THEN RStrip(SubSeq(s, 1, Len(s) - 1)) ELSE s

\* str.strip()
Strip(s) == RStrip(LStrip(s))

\* s.split(CRLF), with cur the line being read
RECURSIVE SplitFrom(_, _)
SplitFrom(s, cur) ==
  IF s = <<>> THEN <<cur>>
  ELSE IF Len(s) >= 2 /\ SubSeq(s, 1, 2) = CRLF
       THEN <<cur>> \o SplitFrom(SubSeq(s, 3, Len(s)), <<>>)
       ELSE SplitFrom(Tail(s), Append(cur, s[1]))

Split(s) == SplitFrom(s, <<>>)

\* str(n) of an integer
RECURSIVE Decimal(_)
Decimal(n) ==
  IF n < 0 THEN <<45>> \o Decimal(0 - n)
  ELSE IF n < 10 THEN <<48 + n>>
  ELSE Append(Decimal(n \div 10), 48 + (n % 10))

RECURSIVE DigitsValue(_)
DigitsValue(s) ==
  IF s = <<>> THEN 0
  ELSE DigitsValue(SubSeq(s, 1, Len(s) - 1)) * 10 + (s[Len(s)] - 48)

\* int(s): surrounding whitespace, an optional sign and decimal digits;
\* anything else raises ValueError (ok is FALSE)
PyIntOf(s) ==
  LET t == Strip(s)
      d == IF t # <<>> /\ t[1] \in {43, 45} THEN Tail(t) ELSE t
  IN IF d # <<>> /\ \A i \in 1..Len(d) : d[i] \in 48..57
     THEN [ok |-> TRUE,
           n |-> IF t[1] = 45 THEN 0 - DigitsValue(d) ELSE DigitsValue(d)]
     ELSE [ok |-> FALSE, n |-> 0]

\* bytes.decode('utf-8') for sequences of one and two bytes; a byte that
\* starts no such sequence raises UnicodeDecodeError (ok is FALSE).  A long
\* value is decoded in two parts, cut where a character starts.
RECURSIVE Utf8Decode(_)
Utf8Decode(b) ==
  IF Len(b) > 2
  THEN LET half == Len(b) \div 2
           cut == IF b[half + 1] \in 128..191 THEN half + 1 ELSE half
           l == Utf8Decode(SubSeq(b, 1, cut))
           r == Utf8Decode(SubSeq(b, cut + 1, Len(b)))
       IN IF l.ok /\ r.ok THEN [ok |-> TRUE, s |-> l.s \o r.s]
          ELSE [ok |-> FALSE, s |-> <<>>]
  ELSE IF b = <<>> THEN [ok |-> TRUE, s |-> <<>>]
  ELSE IF b[1] < 128
  THEN LET r == Utf8Decode(Tail(b))
       IN IF r.ok THEN [ok |-> TRUE, s |-> <<b[1]>> \o r.s] ELSE r
  ELSE IF b[1] \in 194..223 /\ Len(b) >= 2 /\ b[2] \in 128..191
  THEN LET r == Utf8Decode(SubSeq(b, 3, Len(b)))
       IN IF r.ok
          THEN [ok |-> TRUE, s |-> <<(b[1] - 192) * 64 + (b[2] - 128)>> \o r.s]
          ELSE r
  ELSE [ok |-> FALSE, s |-> <<>>]

\* str.encode('utf-8') for code points below 2048
RECURSIVE Utf8Encode(_)
Utf8Encode(s) ==
  IF Len(s) > 2
  THEN Utf8Encode(SubSeq(s, 1, Len(s) \div 2))
       \o Utf8Encode(SubSeq(s, Len(s) \div 2 + 1, Len(s)))
  ELSE IF s = <<>> THEN <<>>
  ELSE (IF s[1] < 128 THEN <<s[1]>>
        ELSE <<192 + (s[1] \div 64), 128 + (s[1] % 64)>>) \o Utf8Encode(Tail(s))

\* str(value) of a stored value inside an f-string: the string itself, or
\* the repr of a list of strings (of letters and digits)
RECURSIVE ReprItems(_)
ReprItems(q) ==
  IF q = <<>> THEN <<>>
  ELSE Text("'") \o q[1] \o Text("'")
       \o (IF Len(q) > 1 THEN Text(", ") ELSE <<>>) \o ReprItems(Tail(q))

PyFormat(v) == IF IsList(v) THEN Text("[") \o ReprItems(v.x) \o Text("]") ELSE v.x

---------------------------------------------------------------------------
(* RESPProtocol (resp_protocol.py) *)

EncodeSimpleString(message) == Utf8Encode(Text("+") \o message \o CRLF)

\* encode_bulk_string: the declared length is len(value)
EncodeBulkString(value) ==
  IF value = PyNone THEN Text("$-1") \o CRLF
  ELSE Utf8Encode(Text("$") \o Decimal(Len(value.x)) \o CRLF
                  \o PyFormat(value) \o CRLF)

RECURSIVE ArrayParts(_)
ArrayParts(items) ==
  IF items = <<>> THEN <<>>
  ELSE Text("$") \o Decimal(Len(items[1])) \o CRLF \o items[1] \o CRLF
       \o ArrayParts(Tail(items))

EncodeArray(items) ==
  IF items = <<>> THEN Text("*0") \o CRLF
  ELSE Utf8Encode(Text("*") \o Decimal(Len(items)) \o CRLF \o ArrayParts(items))

EncodeError(message) == Utf8Encode(Text("-ERR ") \o message \o CRLF)
EncodeOk == EncodeSimpleString(Text("OK"))

\* the reply f":{n}{CRLF}" of the handlers
EncodeInteger(n) == Utf8Encode(Text(":") \o Decimal(n) \o CRLF)

EncodeFullresync(replid, offset) ==
  Utf8Encode(Text("+FULLRESYNC ") \o replid \o Text(" ") \o Decimal(offset) \o CRLF)

\* constants.py: EMPTY_RDB_HEX, as bytes
EmptyRdb ==
  <<82, 69, 68, 73, 83, 48, 48, 49, 49, 250, 9, 114, 101, 100, 105, 115,
    45, 118, 101, 114, 5, 55, 46, 50, 46, 48, 250, 10, 114, 101, 100, 105,
    115, 45, 98, 105, 116, 115, 192, 64, 250, 5, 99, 116, 105, 109, 101,
    194, 109, 8, 188, 101, 250, 8, 117, 115, 101, 100, 45, 109, 101, 109,
    194, 176, 196, 16, 0, 250, 8, 97, 111, 102, 45, 98, 97, 115, 101, 192,
    0, 255, 240, 110, 59, 254, 192, 255, 90, 162>>

EncodeRdbFile(rdb_bytes) == Utf8Encode(Text("$") \o Decimal(Len(rdb_bytes)) \o CRLF) \o rdb_bytes

\* constants.py: ERROR_MESSAGES
WrongNumberOfArgs(command) ==
  Text("wrong number of arguments for ") \o command \o Text(" command")
UnknownCommand(command) == Text("unknown command '") \o command \o Text("'")
ValueNotInteger == Text("value is not an integer or out of range")
PsyncNotSupported == Text("PSYNC not supported in this role")

---------------------------------------------------------------------------
(* ClientHandler.parse_resp (client_handler.py): the text is stripped and
   split at CRLF; the declared lengths are read and not used.  A result
   with ok FALSE is the ValueError of int(). *)
StartsWith(line, c) == line # <<>> /\ line[1] = c

\* the loop over the items of an array: count items are taken from line i on
RECURSIVE ParseItems(_, _, _, _)
ParseItems(lines, i, count, elems) ==
  IF count <= 0 THEN [ok |-> TRUE, i |-> i, elems |-> elems]
  ELSE IF i <= Len(lines) /\ StartsWith(lines[i], 36)
  THEN IF ~PyIntOf(Tail(lines[i])).ok THEN [ok |-> FALSE, i |-> i, elems |-> <<>>]
       ELSE IF i + 1 <= Len(lines)
       THEN ParseItems(lines, i + 2, count - 1, Append(elems, lines[i + 1]))
       ELSE ParseItems(lines, i + 1, count - 1, elems)
  ELSE IF i <= Len(lines)
  THEN ParseItems(lines, i + 1, count - 1, Append(elems, lines[i]))
  ELSE ParseItems(lines, i, count - 1, elems)

\* the outer loop, from line i on
RECURSIVE ParseLines(_, _, _)
ParseLines(lines, i, elems) ==
  IF i > Len(lines) THEN [ok |-> TRUE, elems |-> elems]
  ELSE IF StartsWith(lines[i], 42)
  THEN LET count == PyIntOf(Tail(lines[i]))
       IN IF ~count.ok THEN [ok |-> FALSE, elems |-> <<>>]
          ELSE LET r == ParseItems(lines, i + 1, count.n, elems)
               IN IF r.ok THEN ParseLines(lines, r.i, r.elems)
                  ELSE [ok |-> FALSE, elems |-> <<>>]
  ELSE IF StartsWith(lines[i], 36)
  THEN IF ~PyIntOf(Tail(lines[i])).ok THEN [ok |-> FALSE, elems |-> <<>>]
       ELSE IF i + 1 <= Len(lines)
       THEN ParseLines(lines, i + 2, Append(elems, lines[i + 1]))
       ELSE ParseLines(lines, i + 1, elems)
  ELSE ParseLines(lines, i + 1, Append(elems, lines[i]))

ParseResp(data) == ParseLines(Split(Strip(data)), 1, <<>>)

---------------------------------------------------------------------------
(* The replica (server.py): the server at the far end of a connection that
   sent PSYNC reads what the master writes on it.  A recv delivers whole
   writes of the master, one or several at once. *)

\* b''.join of the writes i..j of a socket
RECURSIVE Joined(_, _, _)
Joined(sk, i, j) == IF i > j THEN <<>> ELSE sk[i] \o Joined(sk, i + 1, j)

\* pat in buf
Contains(buf, pat) ==
  \E i \in 1..(Len(buf) - Len(pat) + 1) : SubSeq(buf, i, i + Len(pat) - 1) = pat

\* buf.startswith(pat)
BeginsWith(buf, pat) == Len(buf) >= Len(pat) /\ SubSeq(buf, 1, Len(pat)) = pat

\* text.find(CRLF): the index (from 0) of the first CRLF, or -1
FindCrlf(text) ==
  IF Contains(text, CRLF)
  THEN (CHOOSE i \in 1..Len(text) :
          /\ SubSeq(text, i, i + 1) = CRLF
          /\ \A h \in 1..(i - 1) : SubSeq(text, h, h + 1) # CRLF) - 1
  ELSE 0 - 1

\* CRLF.join(lines)
RECURSIVE JoinCrlf(_)
JoinCrlf(lines) ==
  IF lines = <<>> THEN <<>>
  ELSE IF Len(lines) = 1 THEN lines[1]
  ELSE lines[1] \o CRLF \o JoinCrlf(Tail(lines))

\* q[:n]
SliceTo(q, n) ==
  IF n >= 0 THEN SubSeq(q, 1, Min(n, Len(q))) ELSE SubSeq(q, 1, Max(0, Len(q) + n))

\* a result of the extractors: none (None) or the message msg
NoMessage == [none |-> TRUE, msg |-> <<>>]
Message(m) == [none |-> FALSE, msg |-> m]

\* extract_array_message: header and 2 * count lines, however long the
\* values are declared to be
ExtractArrayMessage(text) ==
  LET header_end == FindCrlf(text)
      array_count == PyIntOf(SubSeq(text, 2, header_end))
      lines == Split(text)
      expected_lines == 1 + array_count.n * 2
  IN IF header_end = 0 - 1 \/ ~array_count.ok THEN NoMessage
     ELSE IF Len(lines) < expected_lines THEN NoMessage
     ELSE Message(Utf8Encode(JoinCrlf(SliceTo(lines, expected_lines)) \o CRLF))

\* extract_bulk_string_message
ExtractBulkStringMessage(text) ==
  LET header_end == FindCrlf(text)
      length == PyIntOf(SubSeq(text, 2, header_end))
      lines == Split(text)
  IN IF header_end = 0 - 1 \/ ~length.ok THEN NoMessage
     ELSE IF Len(lines) < 2 THEN NoMessage
     ELSE IF Len(lines[2]) < length.n THEN NoMessage
     ELSE Message(Utf8Encode(Text("$") \o Decimal(length.n) \o CRLF
                             \o SliceTo(lines[2], length.n) \o CRLF))

\* extract_simple_message
ExtractSimpleMessage(text) ==
  IF ~Contains(text, CRLF) THEN NoMessage
  ELSE Message(Utf8Encode(SubSeq(text, 1, FindCrlf(text) + 2)))

\* extract_complete_resp_message
ExtractCompleteRespMessage(buffer) ==
  LET text == Utf8Decode(buffer)
  IN IF ~text.ok \/ text.s = <<>> THEN NoMessage
     ELSE IF text.s[1] = 42 THEN ExtractArrayMessage(text.s)
     ELSE IF text.s[1] = 36 THEN ExtractBulkStringMessage(text.s)
     ELSE IF text.s[1] \in {43, 45, 58} THEN ExtractSimpleMessage(text.s)
     ELSE NoMessage

\* AckResponse that counts the GETACK frame (37 bytes) before it answers
AckResponseCounted(offset) ==
  Utf8Encode(Text("*3") \o CRLF \o Text("$8") \o CRLF \o Text("REPLCONF") \o CRLF
             \o Text("$3") \o CRLF \o Text("ACK") \o CRLF
             \o Text("$") \o Decimal(Len(Decimal(offset + 37))) \o CRLF
             \o Decimal(offset + 37) \o CRLF)

\* the reply of a replica to REPLCONF GETACK: the f-string of
\* handle_master_propagation with the offset it is given
AckResponse(offset) ==
  Utf8Encode(Text("*3") \o CRLF \o Text("$8") \o CRLF \o Text("REPLCONF") \o CRLF
             \o Text("$3") \o CRLF \o Text("ACK") \o CRLF
             \o Text("$") \o Decimal(Len(Decimal(offset))) \o CRLF
             \o Decimal(offset) \o CRLF)

\* ReplicaMessage that answers every array it takes off the buffer
ReplicaMessageAnswersAll(rep, complete_message) ==
  LET rest == SubSeq(rep.buffer, Len(complete_message) + 1, Len(rep.buffer))
  IN [rep EXCEPT !.out = Append(@, AckResponse(rep.replication_offset)),
                 !.acks = Append(@, AckResponse(rep.replication_offset)),
                 !.first_getack_sent = TRUE,
                 !.replication_offset = @ + Len(complete_message),
                 !.buffer = rest]

\* handle_master_propagation, the body of its inner loop: the replica rep
\* takes the message complete_message off its buffer.  Of the commands only
\* SET is applied, by storage.set(key, value); every array adds its
\* length to the offset.  The ValueError of parse_resp ends the thread.
ReplicaMessage(rep, complete_message) ==
  LET message_text == Utf8Decode(complete_message).s
      parsed == ParseResp(message_text)
      elems == parsed.elems
      rest == SubSeq(rep.buffer, Len(complete_message) + 1, Len(rep.buffer))
      getack == /\ elems # <<>>
                /\ Lower(elems[1]) = Text("replconf")
                /\ Len(elems) >= 2
                /\ Upper(elems[2]) = Text("GETACK")
      ack_response == IF ~rep.first_getack_sent THEN AckResponse(0)
                      ELSE AckResponse(rep.replication_offset)
  IN IF message_text[1] # 42 THEN [rep EXCEPT !.buffer = rest]
     ELSE IF ~parsed.ok THEN [rep EXCEPT !.phase = "dead"]
     ELSE [rep EXCEPT
             !.cache = IF elems # <<>> /\ Lower(elems[1]) = Text("set")
                          /\ Len(elems) >= 3
                       THEN StorageSet(@, elems[2], elems[3], NoExpiry)
                       ELSE @,
             !.first_getack_sent = @ \/ getack,
             !.out = IF getack THEN Append(@, ack_response) ELSE @,
             !.acks = IF getack THEN Append(@, ack_response) ELSE @,
             !.replication_offset = @ + Len(complete_message),
             !.buffer = rest]

\* handle_master_propagation, its inner loop: messages are taken off the
\* buffer as long as extract_complete_resp_message finds one
RECURSIVE ProcessBuffer(_)
ProcessBuffer(rep) ==
  LET m == ExtractCompleteRespMessage(rep.buffer)
  IN IF rep.phase = "dead" \/ m.none THEN rep
     ELSE ProcessBuffer(ReplicaMessage(rep, m.msg))

\* server_to_master_handshake, after PSYNC: resp4 holds the FULLRESYNC
\* line, the RDB file and whatever the master wrote next; what follows the
\* RDB file, less the two bytes the code takes for a CRLF that ends it, is
\* kept as pending_data
PendingData(resp4) ==
  LET fullresync_end == FindCrlf(resp4) + 2
      from_rdb == SubSeq(resp4, fullresync_end + 1, Len(resp4))
      rdb_length_line_end == fullresync_end + FindCrlf(from_rdb) + 2
      rdb_length == PyIntOf(SubSeq(from_rdb, 2, FindCrlf(from_rdb))).n
      rdb_data_end == rdb_length_line_end + rdb_length + 2
  IN SubSeq(resp4, rdb_data_end + 1, Len(resp4))

\* handle_master_propagation, its start: the pending data that lost the
\* header of a REPLCONF array gets it back
StartBuffer(buffer) ==
  IF BeginsWith(buffer, Text("$")) /\ Contains(buffer, Text("REPLCONF"))
  THEN Text("*3") \o CRLF \o buffer
  ELSE IF BeginsWith(buffer, CRLF \o Text("$")) /\ Contains(buffer, Text("REPLCONF"))
  THEN Text("*3") \o buffer
  ELSE buffer

\* everything but the replica: no step of a replica touches the master
MasterUnchanged ==
  UNCHANGED <<storeVars, blockVars, histVars, wire, role, replica_connections,
              write_sequence, pending_acks, replica_offsets, sock, broken,
              session, calls, sent>>

\* the replica at the far end of r ends its handshake, having received the
\* first j writes of the master in resp4, and starts its propagation thread
ReplicaHandshake(r, j) ==
  /\ replica[r].phase = "off"
  /\ j \in 2..Len(sock[r])
  /\ BeginsWith(sock[r][1], Text("+FULLRESYNC "))
  /\ Len(Joined(sock[r], 1, j)) <= 1024
  /\ replica' = [replica EXCEPT ![r] =
       [@ EXCEPT !.phase = "streaming", !.taken = j,
                 !.replication_offset = 0, !.first_getack_sent = FALSE,
                 !.clean = (cache = EmptyDict /\ write_sequence = 0),
                 !.buffer = StartBuffer(PendingData(Joined(sock[r], 1, j)))]]
  /\ MasterUnchanged

\* handle_master_propagation, one turn of its outer loop: a recv of the
\* next j writes of the master, then the inner loop
ReplicaRecv(r, j) ==
  /\ replica[r].phase = "streaming"
  /\ j \in 1..(Len(sock[r]) - replica[r].taken)
  /\ LET data == Joined(sock[r], replica[r].taken + 1, replica[r].taken + j)
     IN /\ Len(data) <= 1024
        /\ replica' = [replica EXCEPT ![r] =
             ProcessBuffer([@ EXCEPT !.buffer = @ \o data, !.taken = @ + j])]
  /\ MasterUnchanged

---------------------------------------------------------------------------
(* Replication, master side (replication.py) *)

\* list.remove: the list q without the first e
ListRemove(q, e) ==
  IF \E i \in 1..Len(q) : q[i] = e
  THEN LET i == CHOOSE j \in 1..Len(q) : q[j] = e /\ \A h \in 1..(j-1) : q[h] # e
       IN SubSeq(q, 1, i - 1) \o SubSeq(q, i + 1, Len(q))
  ELSE q

SetOf(q) == {q[i] : i \in 1..Len(q)}

\* constants.py: DEFAULT_REPLICATION_ID_LENGTH
DEFAULT_REPLICATION_ID_LENGTH == 40

\* Replication.master_replid: one of the ids generate_replid can draw
master_replid == [i \in 1..DEFAULT_REPLICATION_ID_LENGTH |-> 48 + (i % 10)]

\* the replication state a call starts from, and no socket written
NoPropagation ==
  [rc |-> replica_connections, pa |-> pending_acks, ro |-> replica_offsets,
   ws |-> write_sequence, writes |-> <<>>]

\* the loop of propagate_to_replicas over self.replica_connections, at
\* position i of the list as it is now: a failed connection is removed from
\* the list that is being iterated, from every pending set and from the
\* offsets
RECURSIVE PropagateLoop(_, _, _)
PropagateLoop(i, payload, st) ==
  IF i > Len(st.rc) THEN st
  ELSE LET replica_conn == st.rc[i]
       IN IF replica_conn \in broken
          THEN PropagateLoop(i + 1, payload,
                 [st EXCEPT !.rc = ListRemove(@, replica_conn),
                            !.pa = [seq \in DOMAIN @ |-> @[seq] \ {replica_conn}],
                            !.ro = DictDel(@, replica_conn)])
          ELSE PropagateLoop(i + 1, payload,
                 [st EXCEPT !.writes = Append(@, [to |-> replica_conn,
                                                   data |-> payload])])

\* Replication.propagate_to_replicas
PropagateToReplicas(payload) ==
  IF role # "master" THEN NoPropagation
  ELSE PropagateLoop(1, payload,
         [NoPropagation EXCEPT
            !.ws = write_sequence + 1,
            !.pa = DictPut(pending_acks, write_sequence + 1,
                           SetOf(replica_connections))])

\* Replication.add_replica_connection
AddReplicaConnection(connection) ==
  [NoPropagation EXCEPT !.rc = Append(replica_connections, connection),
                        !.ro = DictPut(replica_offsets, connection, 0)]

---------------------------------------------------------------------------
(* RedisCommandHandler (command_handler.py).  A handler runs on the parsed
   command elems of connection c; the calls of sendall it makes, on its own
   connection and on the replicas', are kept in order. *)

\* the sockets after the writes were made
RECURSIVE Written(_, _)
Written(sk, writes) ==
  IF writes = <<>> THEN sk
  ELSE Written([sk EXCEPT ![writes[1].to] = Append(@, writes[1].data)],
               Tail(writes))

\* what each write carried: a write on the handler's own connection c
\* carries a reply (0), a write on another one the propagated write seq
RECURSIVE Tagged(_, _, _, _)
Tagged(sn, writes, c, seq) ==
  IF writes = <<>> THEN sn
  ELSE Tagged([sn EXCEPT ![writes[1].to] =
                 Append(@, IF writes[1].to = c THEN 0 ELSE seq)],
              Tail(writes), c, seq)

\* one sendall on the handler's own connection
Replied(c, data) == <<[to |-> c, data |-> data]>>

\* what a handler leaves behind outside the store: the sockets written, the
\* replication state p, and where the session of c goes on
Handled(c, elems, writes, p, after) ==
  /\ sock' = Written(sock, writes)
  /\ sent' = Tagged(sent, writes, c, p.ws)
  /\ replica_connections' = p.rc
  /\ pending_acks' = p.pa
  /\ replica_offsets' = p.ro
  /\ write_sequence' = p.ws
  /\ session' = [session EXCEPT ![c] = after]
  /\ last' = [NoLast EXCEPT !.op = "cmd",
                            !.key = IF Len(elems) >= 2 THEN elems[2] ELSE <<>>,
                            !.args = elems,
                            !.ret = IF writes # <<>> THEN writes[1].data ELSE <<>>,
                            !.at = now, !.conn = c, !.log = writes,
                            !.reps = SetOf(replica_connections),
                            !.seq = write_sequence]
  /\ nops' = nops + 1
  /\ UNCHANGED <<now, role, broken, pc, tkey, ttimeout, tret, tenq, replica, calls>>

StoreUntouched == UNCHANGED <<cache, waiting_clients, tflag, scen, hist>>

\* Refused that counts the refused command as a write
RefusedCounted(c, elems, message) ==
  /\ Handled(c, elems, Replied(c, EncodeError(message)),
             [NoPropagation EXCEPT !.ws = write_sequence + 1], "open")
  /\ StoreUntouched

\* a handler that answers with an error and does nothing else
Refused(c, elems, message) ==
  /\ Handled(c, elems, Replied(c, EncodeError(message)), NoPropagation, "open")
  /\ StoreUntouched

\* an exception leaves the handler: ClientHandler.handle prints it and
\* closes the connection
Raised(c, elems) ==
  /\ Handled(c, elems, <<>>, NoPropagation, "closed")
  /\ StoreUntouched

\* the history of key k replaced by h
HistPut(k, h) == IF k \in DOMAIN hist THEN [hist EXCEPT ![k] = h] ELSE hist

\* the expiry instant a SET asks for, read off the command: PX m given at
\* time t asks for t + m
RequestedExpiry(elems, t) ==
  IF /\ Len(elems) >= 5
     /\ elems[4] \in {Text("PX"), Text("px")}
     /\ \E m \in (0 - MaxTime)..MaxTime : Decimal(m) = elems[5]
  THEN <<t + (CHOOSE m \in (0 - MaxTime)..MaxTime : Decimal(m) = elems[5])>>
  ELSE NoExpiry

\* SetExpiry that reads no option
SetExpiryNever(elems, t) == [ok |-> TRUE, exp |-> NoExpiry]

\* handle_set: the expiry of the options, or the ValueError of int()
SetExpiry(elems, t) ==
  IF Len(elems) >= 5 /\ Upper(elems[4]) = Text("PX")
  THEN LET px_milliseconds == PyIntOf(elems[5])
       IN IF px_milliseconds.ok
          THEN [ok |-> TRUE, exp |-> <<t + px_milliseconds.n>>]
          ELSE [ok |-> FALSE, exp |-> NoExpiry]
  ELSE [ok |-> TRUE, exp |-> NoExpiry]

\* handle_set: the frame handed to propagate_to_replicas
SetPayload(key, value) ==
  Utf8Encode(Text("*3") \o CRLF \o Text("$3") \o CRLF \o Text("SET") \o CRLF
             \o Text("$") \o Decimal(Len(key)) \o CRLF \o key \o CRLF
             \o Text("$") \o Decimal(Len(value)) \o CRLF \o value \o CRLF)

HandleSet(c, elems) ==
  IF Len(elems) < 3 THEN Refused(c, elems, WrongNumberOfArgs(Text("SET")))
  ELSE LET key == elems[2]
           value == elems[3]
           expiry == SetExpiry(elems, now)
       IN IF ~expiry.ok THEN Refused(c, elems, ValueNotInteger)
          ELSE LET p == PropagateToReplicas(SetPayload(key, value))
               IN /\ cache' = StorageSet(cache, key, value, expiry.exp)
                  /\ hist' = HistPut(key,
                       [NoHist EXCEPT !.set = <<[v |-> value,
                                                 exp |-> RequestedExpiry(elems, now)]>>,
                                      !.listOnly = FALSE])
                  /\ scen' = ScenSpoil(key)
                  /\ UNCHANGED <<waiting_clients, tflag>>
                  /\ Handled(c, elems, Replied(c, EncodeOk) \o p.writes, p, "open")

HandleGet(c, elems) ==
  IF Len(elems) < 2 THEN Refused(c, elems, WrongNumberOfArgs(Text("GET")))
  ELSE LET r == StorageGet(cache, elems[2], now)
       IN /\ cache' = r.cache
          /\ hist' = HistAfterGet(r.cache, elems[2])
          /\ UNCHANGED <<waiting_clients, tflag, scen>>
          /\ Handled(c, elems, Replied(c, EncodeBulkString(r.ret)),
                     NoPropagation, "open")

HandleRpush(c, elems) ==
  IF Len(elems) < 3 THEN Refused(c, elems, WrongNumberOfArgs(Text("RPUSH")))
  ELSE LET key == elems[2]
           values == SubSeq(elems, 3, Len(elems))
           r == StorageRpush(cache, key, values)
       IN /\ PushedStore(key, values, r)
          /\ Handled(c, elems, Replied(c, EncodeInteger(r.ret)),
                     NoPropagation, "open")

HandleLpush(c, elems) ==
  IF Len(elems) < 3 THEN Refused(c, elems, WrongNumberOfArgs(Text("LPUSH")))
  ELSE LET key == elems[2]
           values == SubSeq(elems, 3, Len(elems))
           r == StorageLpush(cache, key, values)
       IN /\ PushedStore(key, values, r)
          /\ Handled(c, elems, Replied(c, EncodeInteger(r.ret)),
                     NoPropagation, "open")

HandleLrange(c, elems) ==
  IF Len(elems) < 4 THEN Refused(c, elems, WrongNumberOfArgs(Text("LRANGE")))
  ELSE LET start == PyIntOf(elems[3])
           stop == PyIntOf(elems[4])
       IN IF ~start.ok \/ ~stop.ok THEN Raised(c, elems)
          ELSE /\ Handled(c, elems,
                    Replied(c, EncodeArray(StorageLrange(cache, elems[2],
                                                         start.n, stop.n))),
                    NoPropagation, "open")
               /\ StoreUntouched

HandleLlen(c, elems) ==
  IF Len(elems) < 2 THEN Refused(c, elems, WrongNumberOfArgs(Text("LLEN")))
  ELSE /\ Handled(c, elems, Replied(c, EncodeInteger(StorageLlen(cache, elems[2]))),
                  NoPropagation, "open")
       /\ StoreUntouched

\* handle_psync; ClientHandler.handle leaves its loop after PSYNC and does
\* not close the socket
HandlePsync(c, elems) ==
  /\ IF role = "master"
     THEN Handled(c, elems,
                  <<[to |-> c, data |-> EncodeFullresync(master_replid, 0)],
                    [to |-> c, data |-> EncodeRdbFile(EmptyRdb)]>>,
                  AddReplicaConnection(c), "detached")
     ELSE Handled(c, elems, Replied(c, EncodeError(PsyncNotSupported)),
                  NoPropagation, "detached")
  /\ StoreUntouched

\* request_replica_acks: the GETACK command written to every replica of the
\* list as it was; a connection whose sendall raises leaves the list and
\* the offsets, and stays in the pending sets
GetackCommand ==
  Utf8Encode(Text("*3") \o CRLF \o Text("$8") \o CRLF \o Text("REPLCONF") \o CRLF
             \o Text("$6") \o CRLF \o Text("GETACK") \o CRLF
             \o Text("$1") \o CRLF \o Text("*") \o CRLF)

RECURSIVE RequestLoop(_, _)
RequestLoop(snapshot, st) ==
  IF snapshot = <<>> THEN st
  ELSE LET replica_conn == Head(snapshot)
       IN IF replica_conn \in broken
          THEN RequestLoop(Tail(snapshot),
                 [st EXCEPT !.rc = ListRemove(@, replica_conn),
                            !.ro = DictDel(@, replica_conn)])
          ELSE RequestLoop(Tail(snapshot),
                 [st EXCEPT !.writes = Append(@, [to |-> replica_conn,
                                                   data |-> GetackCommand])])

RequestReplicaAcks ==
  IF role # "master" THEN NoPropagation
  ELSE RequestLoop(replica_connections, NoPropagation)

\* parse_replica_response: the offset of the first REPLCONF ACK in data, if
\* data starts with one
ParseReplicaResponse(data) ==
  LET text == Utf8Decode(data)
      lines == Split(Strip(text.s))
  IN IF /\ text.ok
        /\ Len(lines) >= 7
        /\ lines[1] = Text("*3") /\ lines[2] = Text("$8")
        /\ lines[3] = Text("REPLCONF")
        /\ lines[4] = Text("$3") /\ lines[5] = Text("ACK")
     THEN PyIntOf(lines[7])
     ELSE [ok |-> FALSE, n |-> 0]

\* handle_replica_ack: the offset is kept; the replica leaves the pending
\* set of every sequence it is in, and a set left empty is deleted
HandleReplicaAck(st, replica_conn, offset) ==
  LET emptied == {seq \in DOMAIN st.pa : st.pa[seq] = {replica_conn}}
  IN [st EXCEPT !.ro = DictPut(@, replica_conn, offset),
                !.pa = [seq \in DOMAIN @ \ emptied |-> @[seq] \ {replica_conn}]]

\* read_replica_responses: for every replica of the list as it was, one
\* recv of what the replica has written, if anything (inbox holds the
\* unread writes of each replica)
RECURSIVE ReadLoop(_, _)
ReadLoop(snapshot, st) ==
  IF snapshot = <<>> THEN st
  ELSE LET replica_conn == Head(snapshot)
           data == Joined(st.inbox[replica_conn], 1, Len(st.inbox[replica_conn]))
           ack == ParseReplicaResponse(data)
           read == [st EXCEPT !.inbox[replica_conn] = <<>>]
       IN IF data = <<>> THEN ReadLoop(Tail(snapshot), st)
          ELSE IF ack.ok
          THEN ReadLoop(Tail(snapshot), HandleReplicaAck(read, replica_conn, ack.n))
          ELSE ReadLoop(Tail(snapshot), read)

ReadReplicaResponses ==
  LET st == [rc |-> replica_connections, pa |-> pending_acks,
             ro |-> replica_offsets, ws |-> write_sequence, writes |-> <<>>,
             inbox |-> [c \in Conns |-> replica[c].out]]
  IN IF role # "master" THEN st ELSE ReadLoop(replica_connections, st)

\* wait_for_acks: the count it computes for the sequence target
AckedCountAll(rc, pa, target) == Len(rc)

AckedCount(rc, pa, target) ==
  IF target \in DOMAIN pa THEN Len(rc) - Cardinality(pa[target]) ELSE Len(rc)

\* handle_wait up to the loop of wait_for_acks: the handler of c goes on
\* in the loop, having written the GETACK commands (they carry no write:
\* -1) and noted the target and the start time
Begun(c, elems, p) ==
  /\ sock' = Written(sock, p.writes)
  /\ sent' = Tagged(sent, p.writes, c, 0 - 1)
  /\ replica_connections' = p.rc
  /\ pending_acks' = p.pa
  /\ replica_offsets' = p.ro
  /\ write_sequence' = p.ws
  /\ session' = [session EXCEPT ![c] = "busy"]
  /\ calls' = [calls EXCEPT ![c] = [pc |-> "wait", elems |-> elems,
                                    target |-> write_sequence, start |-> now,
                                    ret |-> 0]]
  /\ last' = [NoLast EXCEPT !.op = "begin", !.args = elems, !.ret = <<>>,
                            !.at = now,
                            !.conn = c, !.log = p.writes,
                            !.reps = SetOf(replica_connections),
                            !.seq = write_sequence]
  /\ nops' = nops + 1
  /\ UNCHANGED <<now, role, broken, pc, tkey, ttimeout, tret, tenq, replica>>
  /\ StoreUntouched

\* WaitEarly that never returns before the loop
WaitEarlyNever == [ret |-> FALSE, n |-> 0]

\* wait_for_acks, its first lines: whether it returns before any GETACK,
\* and what
WaitEarly ==
  IF role # "master" \/ replica_connections = <<>> THEN [ret |-> TRUE, n |-> 0]
  ELSE IF write_sequence = 0 THEN [ret |-> TRUE, n |-> Len(replica_connections)]
  ELSE [ret |-> FALSE, n |-> 0]

\* the replicas handle_client_ack may take: those of the first pending
\* set that is not empty, whichever next(iter(...)) gives
ClientAckChoices ==
  LET waited == {seq \in DOMAIN pending_acks : pending_acks[seq] # {}}
  IN IF waited = {} THEN {}
     ELSE pending_acks[CHOOSE seq \in waited : \A other \in waited : seq <= other]

\* Replication.handle_client_ack: replica_conn leaves the first pending
\* set that is not empty, and the set is deleted when that empties it
HandleClientAck(replica_conn) ==
  LET waited == {seq \in DOMAIN pending_acks : pending_acks[seq] # {}}
      seq == CHOOSE first \in waited : \A other \in waited : first <= other
  IN [NoPropagation EXCEPT !.pa =
        IF pending_acks[seq] = {replica_conn} THEN DictDel(pending_acks, seq)
        ELSE [pending_acks EXCEPT ![seq] = @ \ {replica_conn}]]

\* handle_replconf
HandleReplconf(c, elems) ==
  /\ IF Len(elems) >= 2 /\ Upper(elems[2]) = Text("GETACK")
     THEN Handled(c, elems, Replied(c, AckResponse(0)), NoPropagation, "open")
     ELSE IF /\ Len(elems) >= 3 /\ Upper(elems[2]) = Text("ACK")
             /\ PyIntOf(elems[3]).ok
             /\ ClientAckChoices # {}
     THEN \E replica_conn \in ClientAckChoices :
            Handled(c, elems, Replied(c, EncodeOk), HandleClientAck(replica_conn),
                    "open")
     ELSE Handled(c, elems, Replied(c, EncodeOk), NoPropagation, "open")
  /\ StoreUntouched

\* handle_wait, and wait_for_acks as far as its loop
HandleWait(c, elems) ==
  IF Len(elems) < 3 THEN Refused(c, elems, WrongNumberOfArgs(Text("WAIT")))
  ELSE LET num_replicas == PyIntOf(elems[2])
           timeout_ms == PyIntOf(elems[3])
       IN IF ~num_replicas.ok \/ ~timeout_ms.ok
          THEN Refused(c, elems, ValueNotInteger)
          ELSE IF WaitEarly.ret
          THEN /\ Handled(c, elems, Replied(c, EncodeInteger(WaitEarly.n)),
                          NoPropagation, "open")
               /\ StoreUntouched
          ELSE Begun(c, elems, RequestReplicaAcks)

\* what read_replica_responses leaves behind
ReadDone(st) ==
  /\ pending_acks' = st.pa
  /\ replica_offsets' = st.ro
  /\ replica_connections' = st.rc
  /\ replica' = [r \in Conns |-> [replica[r] EXCEPT !.out = st.inbox[r]]]

\* wait_for_acks returns acked_count and handle_wait writes it to c
Returned(c, st, acked_count) ==
  /\ ReadDone(st)
  /\ sock' = Written(sock, Replied(c, EncodeInteger(acked_count)))
  /\ sent' = Tagged(sent, Replied(c, EncodeInteger(acked_count)), c, 0)
  /\ session' = [session EXCEPT ![c] = "open"]
  /\ calls' = [calls EXCEPT ![c] = [@ EXCEPT !.pc = "idle", !.ret = acked_count]]
  /\ last' = [NoLast EXCEPT !.op = "waited", !.args = calls[c].elems,
                            !.ret = EncodeInteger(acked_count), !.at = now,
                            !.conn = c,
                            !.log = Replied(c, EncodeInteger(acked_count)),
                            !.reps = SetOf(st.rc), !.seq = calls[c].target]
  /\ UNCHANGED <<now, nops, role, broken, write_sequence, pc, tkey, ttimeout,
                 tret, tenq, wire>>
  /\ StoreUntouched

\* wait_for_acks, one turn of its loop, entered before the timeout is over
WaitPoll(c) ==
  /\ calls[c].pc = "wait"
  /\ now - calls[c].start < PyIntOf(calls[c].elems[3]).n
  /\ LET st == ReadReplicaResponses
         acked_count == AckedCount(st.rc, st.pa, calls[c].target)
     IN IF acked_count >= PyIntOf(calls[c].elems[2]).n
        THEN Returned(c, st, acked_count)
        ELSE /\ ReadDone(st)
             /\ UNCHANGED <<storeVars, blockVars, histVars, wire, role,
                            write_sequence, sock, broken, session, calls, sent>>

\* wait_for_acks after its loop: the timeout is over, the responses are read
\* once more and the count is returned
WaitExpire(c) ==
  /\ calls[c].pc = "wait"
  /\ now - calls[c].start >= PyIntOf(calls[c].elems[3]).n
  /\ LET st == ReadReplicaResponses
     IN Returned(c, st, AckedCount(st.rc, st.pa, calls[c].target))

\* the commands with a handler that is outside this model
OtherHandlers ==
  {Text("echo"), Text("ping"), Text("keys"), Text("config"), Text("info")}

\* process_command
ProcessCommand(c, elems) ==
  LET cmd == Lower(elems[1])
  IN IF cmd = Text("set") THEN HandleSet(c, elems)
     ELSE IF cmd = Text("get") THEN HandleGet(c, elems)
     ELSE IF cmd = Text("rpush") THEN HandleRpush(c, elems)
     ELSE IF cmd = Text("lpush") THEN HandleLpush(c, elems)
     ELSE IF cmd = Text("llen") THEN HandleLlen(c, elems)
     ELSE IF cmd = Text("lrange") THEN HandleLrange(c, elems)
     ELSE IF cmd = Text("psync") THEN HandlePsync(c, elems)
     ELSE IF cmd = Text("wait") THEN HandleWait(c, elems)
     ELSE IF cmd = Text("replconf") THEN HandleReplconf(c, elems)
     ELSE IF cmd \in OtherHandlers THEN FALSE
     ELSE Refused(c, elems, UnknownCommand(cmd))

---------------------------------------------------------------------------
(* A master serving parsed commands: one client session and the
   connections of two replicas, with the clock running and replica sockets
   breaking. *)
MaxCmds == 3       \* commands handled in one behaviour

Clients      == {"c1"}
ReplicaConns == {"c2", "c3"}

CmdInputs ==
  {<<Text("SET"), Text("k1"), Text("a")>>,
   <<Text("set"), Text("k1"), Text("b"), Text("px"), Text("1")>>,
   <<Text("SET"), Text("k1"), Text("a"), Text("PX"), Text("x")>>,
   <<Text("SET"), Text("k1")>>,
   <<Text("GET"), Text("k1")>>,
   <<Text("RPUSH"), Text("k1"), Text("a")>>,
   <<Text("LPUSH"), Text("k1"), Text("b"), Text("a")>>,
   <<Text("LLEN"), Text("k1")>>,
   <<Text("LRANGE"), Text("k1"), Text("0"), Text("-1")>>}

PsyncInput == <<Text("PSYNC"), Text("?"), Text("-1")>>

\* connection c sends the command elems, which process_command dispatches
Command(c, elems) ==
  /\ nops < MaxCmds
  /\ session[c] = "open"
  /\ ProcessCommand(c, elems)
  /\ UNCHANGED wire

Named(elems, name) == Lower(elems[1]) = Text(name)

\* the socket of a replica breaks: the next sendall on it raises
SocketBreaks(c) ==
  /\ c \in SetOf(replica_connections)
  /\ c \notin broken
  /\ broken' = broken \cup {c}
  /\ UNCHANGED <<storeVars, blockVars, histVars, wire, role, replica_connections,
                 write_sequence, pending_acks, replica_offsets, sock, session,
                 replica, calls, sent>>

NextCmd ==
  \/ \E c \in Clients, elems \in CmdInputs : Named(elems, "set") /\ Command(c, elems)
  \/ \E c \in Clients, elems \in CmdInputs : Named(elems, "get") /\ Command(c, elems)
  \/ \E c \in Clients, elems \in CmdInputs : Named(elems, "rpush") /\ Command(c, elems)
  \/ \E c \in Clients, elems \in CmdInputs : Named(elems, "lpush") /\ Command(c, elems)
  \/ \E c \in Clients, elems \in CmdInputs : Named(elems, "llen") /\ Command(c, elems)
  \/ \E c \in Clients, elems \in CmdInputs : Named(elems, "lrange") /\ Command(c, elems)
  \/ \E c \in ReplicaConns : Command(c, PsyncInput)
  \/ \E c \in ReplicaConns : SocketBreaks(c)
  \/ Tick

SpecCmd == Init /\ [][NextCmd]_vars

\* the bulk string that carries the bytes v, and the null bulk string
BulkOf(v) == Text("$") \o Decimal(Len(v)) \o CRLF \o v \o CRLF
NullBulk  == Text("$-1") \o CRLF

\* the last command handled was the command name on a key with a history
LastWas(name) ==
  /\ last.op = "cmd"
  /\ Len(last.args) >= 2
  /\ Lower(last.args[1]) = Text(name)
  /\ last.key \in Keys

(* C3: after SET k v PX m accepted at time t, and until k is written again,
   a GET k at a time strictly before t + m is answered with the bulk string
   v; a GET k at a time strictly after t + m is answered with the null bulk
   string and leaves k out of the store; and once a GET has removed k,
   every later GET k is answered with the null bulk string. *)
C3_ExpiryOnRead ==
  (LastWas("get") /\ hist[last.key].set # <<>>
                  /\ hist[last.key].set[1].exp # NoExpiry)
  => LET k == last.key
         v == hist[k].set[1].v
         e == hist[k].set[1].exp[1]
     IN /\ last.at < e => last.ret = BulkOf(v) /\ ~hist[k].gone
        /\ last.at > e => last.ret = NullBulk /\ k \notin DOMAIN cache
        /\ hist[k].gone => last.ret = NullBulk /\ k \notin DOMAIN cache

\* SET k v PX m, then GET answered v before t + m, then GET answered null
\* after t + m with k removed
C3_Witness ==
  /\ LastWas("get")
  /\ hist[last.key].set # <<>>
  /\ hist[last.key].set[1].exp # NoExpiry
  /\ last.at > hist[last.key].set[1].exp[1]
  /\ hist[last.key].gone
  /\ last.key \notin DOMAIN cache
  /\ sock[last.conn] = <<EncodeOk, BulkOf(hist[last.key].set[1].v), NullBulk>>

\* the frames the last command wrote to connection r after its reply
PropagatedTo(r) == {i \in 2..Len(last.log) : last.log[i].to = r}

\* data is the encoded command array of the last command: its name and key
IsFrameOfLast(data) ==
  LET text == Utf8Decode(data)
      parsed == IF text.ok THEN ParseResp(text.s) ELSE [ok |-> FALSE, elems |-> <<>>]
  IN /\ parsed.ok
     /\ Len(parsed.elems) >= 3
     /\ Upper(parsed.elems[1]) = Upper(last.args[1])
     /\ parsed.elems[2] = last.args[2]
     /\ StartsWith(data, 42)

(* C10: on a master whose replica sockets are all sound, a SET, RPUSH or
   LPUSH that succeeded (its reply is no error) first writes the reply to
   the client and then exactly one encoded frame of that command to every
   connected replica; a GET, LLEN or LRANGE writes to no replica and
   leaves the write sequence as it was. *)
C10_WritesPropagateOnce ==
  (last.op = "cmd" /\ role = "master" /\ last.reps \cap broken = {}
                   /\ last.log # <<>> /\ ~StartsWith(last.ret, 45))
  => /\ (LastWas("set") \/ LastWas("rpush") \/ LastWas("lpush"))
          => /\ last.log[1].to = last.conn
             /\ \A r \in last.reps :
                  /\ Cardinality(PropagatedTo(r)) = 1
                  /\ \A i \in PropagatedTo(r) : IsFrameOfLast(last.log[i].data)
             /\ \A i \in 2..Len(last.log) : last.log[i].to \in last.reps
     /\ (LastWas("get") \/ LastWas("llen") \/ LastWas("lrange"))
          => /\ \A i \in 1..Len(last.log) : last.log[i].to = last.conn
             /\ write_sequence = last.seq

---------------------------------------------------------------------------
(* One connection seen from its client: the bytes of SET k v are sent and
   handled, then the bytes of GET k.  Each command arrives in one recv. *)
MaxValueLen == 3   \* longest value sent, in bytes

WireConn  == "c1"
WireBytes == {97, 32, 13, 10, 195, 169}

\* the command args as a client encodes it: an array of bulk strings, each
\* with its length in bytes
ClientCommand(args) == Text("*") \o Decimal(Len(args)) \o CRLF \o ArrayParts(args)

ClientSendSet(k, v) ==
  /\ wire.phase = "start"
  /\ wire' = [phase |-> "set_sent", key |-> k, val |-> v,
              inbuf |-> ClientCommand(<<Text("SET"), k, v>>)]
  /\ UNCHANGED <<storeVars, blockVars, histVars, replVars>>

ClientSendGet ==
  /\ wire.phase = "set_done"
  /\ session[WireConn] = "open"
  /\ wire' = [wire EXCEPT !.phase = "get_sent",
                          !.inbuf = ClientCommand(<<Text("GET"), wire.key>>)]
  /\ UNCHANGED <<storeVars, blockVars, histVars, replVars>>

\* ClientHandler.handle, one turn of its loop: recv, decode, parse_resp,
\* process_command
SessionRecv(c) ==
  /\ session[c] = "open"
  /\ wire.inbuf # <<>>
  /\ wire' = [wire EXCEPT !.inbuf = <<>>,
                          !.phase = IF @ = "set_sent" THEN "set_done" ELSE "get_done"]
  /\ LET text == Utf8Decode(wire.inbuf)
         parsed == IF text.ok THEN ParseResp(text.s)
                   ELSE [ok |-> FALSE, elems |-> <<>>]
     IN IF ~parsed.ok THEN Raised(c, <<>>)
        ELSE IF parsed.elems = <<>>
        THEN UNCHANGED <<storeVars, blockVars, histVars, replVars>>
        ELSE ProcessCommand(c, parsed.elems)

InitWire ==
  InitStore /\ InitBlock /\ InitRepl /\ wire = [NoWire EXCEPT !.phase = "start"]

NextWire ==
  \/ \E k \in Keys, v \in SeqsOf(WireBytes, 0, MaxValueLen) : ClientSendSet(k, v)
  \/ SessionRecv(WireConn)
  \/ ClientSendGet

SpecWire == InitWire /\ [][NextWire]_vars

(* C1: for every key k and value v, the bytes of SET k v are answered with
   +OK and leave the connection open, and the bytes of GET k sent next on
   the same connection are answered with the bulk string whose payload is
   exactly v and whose declared length is the number of bytes of v. *)
C1_WireRoundTrip ==
  /\ wire.phase \in {"set_done", "get_sent", "get_done"}
       => /\ session[WireConn] = "open"
          /\ sock[WireConn] # <<>>
          /\ sock[WireConn][1] = EncodeOk
  /\ wire.phase = "get_done"
       => sock[WireConn] = <<EncodeOk, BulkOf(wire.val)>>

---------------------------------------------------------------------------
(* A master and its replicas: a client session sends writes and WAIT, the
   servers at the far end of c2 and c3 connect as replicas, end their
   handshake, read the stream and answer; the clock stands still. *)
MaxReplCmds == 4   \* commands handled in one behaviour

StreamReplicas == {"c2", "c3"}

ReplInputs ==
  {<<Text("SET"), Text("k1"), Text("a")>>,
   <<Text("SET"), Text("k1"), Text("b"), Text("PX"), Text("1")>>,
   <<Text("RPUSH"), Text("k2"), Text("a")>>,
   <<Text("WAIT"), Text("1"), Text("0")>>,
   <<Text("WAIT"), Text("2"), Text("1")>>}

ReplCommand(c, elems) ==
  /\ nops < MaxReplCmds
  /\ session[c] = "open"
  /\ ProcessCommand(c, elems)
  /\ UNCHANGED wire

NextRepl ==
  \/ \E c \in Clients, elems \in ReplInputs : Named(elems, "set") /\ ReplCommand(c, elems)
  \/ \E c \in Clients, elems \in ReplInputs : Named(elems, "rpush") /\ ReplCommand(c, elems)
  \/ \E c \in Clients, elems \in ReplInputs : Named(elems, "wait") /\ ReplCommand(c, elems)
  \/ \E c \in StreamReplicas : ReplCommand(c, PsyncInput)
  \/ \E r \in StreamReplicas : \E j \in 2..Len(sock[r]) : ReplicaHandshake(r, j)
  \/ \E r \in StreamReplicas : \E j \in 1..Len(sock[r]) : ReplicaRecv(r, j)
  \/ \E c \in Clients : WaitPoll(c)
  \/ \E c \in Clients : WaitExpire(c)

SpecRepl == Init /\ [][NextRepl]_vars

\* the replica of connection r has ended its handshake before the master
\* executed any write and has consumed everything the master wrote to it
CaughtUp(r) ==
  /\ replica[r].phase = "streaming"
  /\ replica[r].clean
  /\ replica[r].taken = Len(sock[r])
  /\ replica[r].buffer = <<>>

\* the stores c and d hold the same at key k: the same kind and value,
\* and an expiry in both or in neither
SameAt(c, d, k) ==
  /\ k \in DOMAIN d
  /\ d[k].val = c[k].val
  /\ (d[k].exp = NoExpiry) = (c[k].exp = NoExpiry)

(* C11: when a replica that ended its handshake before any write of the
   master has consumed the whole propagation stream, its store equals the
   master's on every key written by SET (with or without PX), RPUSH or
   LPUSH: same kind, same value or list, and an expiry in both or neither. *)
C11_ReplicaStoreEqualsMaster ==
  \A r \in StreamReplicas :
    (CaughtUp(r) /\ r \in SetOf(replica_connections) /\ r \notin broken)
      => \A k \in DOMAIN cache : SameAt(cache, replica[r].cache, k)

\* the places of the GETACK commands among the writes of the master on r
GetackPlaces(r) == {i \in 1..Len(sent[r]) : sent[r][i] = 0 - 1}

\* the place of the n-th GETACK command written on r
GetackPlace(r, n) ==
  CHOOSE i \in GetackPlaces(r) : Cardinality({h \in GetackPlaces(r) : h <= i}) = n

\* the bytes of the writes i..j on r
RECURSIVE BytesOf(_, _, _)
BytesOf(r, i, j) == IF i > j THEN 0 ELSE Len(sock[r][i]) + BytesOf(r, i + 1, j)

\* the offset a reply carries
AckOffsetOf(reply) == ParseResp(Utf8Decode(reply).s).elems

(* C17: every reply a replica wrote on the master stream is REPLCONF ACK
   <offset>; the reply to the first GETACK after the handshake carries 0,
   and the reply to each later GETACK carries the total byte length of the
   command frames the master wrote after the handshake and before that
   GETACK (earlier GETACK frames included, this one not). *)
C17_AckOffsetBeforeGetack ==
  \A r \in StreamReplicas :
    /\ Len(replica[r].acks) <= Cardinality(GetackPlaces(r))
    /\ \A n \in 1..Len(replica[r].acks) :
         AckOffsetOf(replica[r].acks[n]) =
           <<Text("REPLCONF"), Text("ACK"),
             Decimal(IF n = 1 THEN 0 ELSE BytesOf(r, 3, GetackPlace(r, n) - 1))>>

\* a replica has answered a second GETACK, after a SET and the first GETACK
C17_Witness ==
  \E r \in StreamReplicas :
    /\ Len(replica[r].acks) >= 2
    /\ replica[r].cache # EmptyDict
    /\ AckOffsetOf(replica[r].acks[2])[3] # Text("0")

\* the last call is a WAIT n t with integers n and t, answered at once
\* ("cmd") or gone into the loop of wait_for_acks ("begin")
WaitCalled ==
  /\ last.op \in {"cmd", "begin"}
  /\ Lower(last.args[1]) = Text("wait")
  /\ Len(last.args) >= 3
  /\ PyIntOf(last.args[2]).ok /\ PyIntOf(last.args[3]).ok

\* the last call wrote the integer n to its client and nothing else
OnlyAnswered(n) ==
  /\ last.op = "cmd"
  /\ last.log = <<[to |-> last.conn, data |-> Text(":") \o Decimal(n) \o CRLF]>>

(* C15: a WAIT n t called on a master with no connected replica writes :0
   to its client and nothing to any replica; called with replicas
   connected and write_sequence = 0, it writes the number of connected
   replicas and nothing to any replica, whatever n and t are. *)
C15_WaitReturnsAtOnce ==
  (WaitCalled /\ role = "master")
    => /\ last.reps = {} => OnlyAnswered(0)
       /\ (last.reps # {} /\ last.seq = 0) => OnlyAnswered(Cardinality(last.reps))

\* a WAIT 2 1 was answered with 2 while two replicas were connected and no
\* write had been made
C15_Witness ==
  /\ WaitCalled
  /\ Cardinality(last.reps) = 2
  /\ last.seq = 0
  /\ last.args[2] = Text("2")
  /\ sock[last.conn][Len(sock[last.conn])] = Text(":") \o Text("2") \o CRLF

\* the replica of connection r has acknowledged the write target: the
\* master wrote that write on r, then a GETACK command, and the replica has
\* answered that GETACK
Acknowledged(r, target) ==
  \E h, i \in 1..Len(sent[r]) :
    /\ h < i
    /\ sent[r][h] = target
    /\ i \in GetackPlaces(r)
    /\ Len(replica[r].acks) >= Cardinality({g \in GetackPlaces(r) : g <= i})

(* C14: when a WAIT that went through the loop of wait_for_acks with the
   target sequence t returns the count c, at least c of the replicas then
   connected have acknowledged t: the master wrote the write t to them,
   then a GETACK, and they answered that GETACK. *)
C14_WaitCountsRealAcks ==
  last.op = "waited"
    => calls[last.conn].ret
         <= Cardinality({r \in last.reps : Acknowledged(r, last.seq)})

---------------------------------------------------------------------------
(* WAIT with the clock running: a client session sends SET and WAIT, two
   replicas connect, read and answer or stay silent, and their sockets
   break.  The clock of the model stops at MaxTime, so a WAIT is called only
   when its timeout ends by then. *)
WaitInputs ==
  {<<Text("SET"), Text("k1"), Text("a")>>,
   <<Text("WAIT"), Text("1"), Text("1")>>,
   <<Text("WAIT"), Text("2"), Text("2")>>}

NextWait ==
  \/ \E c \in Clients, elems \in WaitInputs : Named(elems, "set") /\ ReplCommand(c, elems)
  \/ \E c \in Clients, elems \in WaitInputs :
       /\ Named(elems, "wait")
       /\ now + PyIntOf(elems[3]).n <= MaxTime
       /\ ReplCommand(c, elems)
  \/ \E c \in ReplicaConns : ReplCommand(c, PsyncInput)
  \/ \E r \in ReplicaConns : \E j \in 2..Len(sock[r]) : ReplicaHandshake(r, j)
  \/ \E r \in ReplicaConns : \E j \in 1..Len(sock[r]) : ReplicaRecv(r, j)
  \/ \E c \in Clients : WaitPoll(c)
  \/ \E c \in Clients : WaitExpire(c)
  \/ \E c \in ReplicaConns : SocketBreaks(c)
  \/ Tick

\* the state after construction, no command handled yet
InitWait ==
  /\ cache = EmptyDict
  /\ now = 0
  /\ waiting_clients = [k \in Keys |-> <<>>]
  /\ hist = [k \in Keys |-> NoHist]
  /\ last = [NoLast EXCEPT !.ret = <<>>]
  /\ nops = 0
  /\ InitBlock /\ InitRepl /\ wire = NoWire

\* the timeout of the WAIT of session c has elapsed: WaitExpire(c) can run
Expirable(c) ==
  /\ calls[c].pc = "wait"
  /\ now - calls[c].start >= PyIntOf(calls[c].elems[3]).n

(* The clock advances, and the thread of a session in wait_for_acks runs:
   WaitExpire(c) is enabled exactly when Expirable(c) holds and disables
   itself, so its weak fairness is that Expirable(c) is false again and
   again. *)
SpecWait ==
  /\ InitWait /\ [][NextWait]_vars
  /\ WF_vars(Tick)
  /\ \A c \in Clients : []<>(~Expirable(c))

\* every WAIT that entered the loop of wait_for_acks leaves it
WaitLeavesLoop ==
  \A c \in Clients : (calls[c].pc = "wait") ~> (calls[c].pc = "idle")

\* the replicas now connected that acknowledged the write target and
\* whose answers the master has read
AckedAndRead(target) ==
  {r \in SetOf(replica_connections) :
     Acknowledged(r, target) /\ replica[r].out = <<>>}

(* C16: a WAIT n t that went through the loop of wait_for_acks returns
   fewer than n only once its timeout has elapsed, and only if fewer than n
   connected replicas have acknowledged the target and been read: with n
   replicas that answered, WAIT n t returns n. *)
C16_WaitReturnsAtNOrTimeout ==
  (last.op = "waited" /\ calls[last.conn].ret < PyIntOf(last.args[2]).n)
    => /\ now - calls[last.conn].start >= PyIntOf(last.args[3]).n
       /\ Cardinality(AckedAndRead(last.seq)) < PyIntOf(last.args[2]).n

---------------------------------------------------------------------------
(* handle_set seen line by line.  Every session has a thread of its own
   (server.py, start) and handle_set takes no lock, so between its three
   calls, storage.set, connection.sendall and propagate_to_replicas, the
   handlers of other sessions run. *)

\* what one line of the handler of c leaves behind outside the store
SetStep(c, op, writes, p, call) ==
  /\ sock' = Written(sock, writes)
  /\ sent' = Tagged(sent, writes, c, p.ws)
  /\ replica_connections' = p.rc
  /\ pending_acks' = p.pa
  /\ replica_offsets' = p.ro
  /\ write_sequence' = p.ws
  /\ session' = [session EXCEPT ![c] = IF call.pc = "idle" THEN "open" ELSE "busy"]
  /\ calls' = [calls EXCEPT ![c] = call]
  /\ last' = [NoLast EXCEPT !.op = op, !.key = call.elems[2],
                            !.args = call.elems, !.ret = <<>>, !.at = now,
                            !.conn = c, !.log = writes,
                            !.reps = SetOf(replica_connections),
                            !.seq = write_sequence]
  /\ UNCHANGED <<now, role, broken, pc, tkey, ttimeout, tret, tenq, replica, wire>>

\* handle_set up to storage.set, for a command that passes the checks of
\* its arguments
SetApply(c, elems) ==
  /\ nops < MaxReplCmds
  /\ session[c] = "open"
  /\ Len(elems) >= 3
  /\ SetExpiry(elems, now).ok
  /\ LET key == elems[2]
         value == elems[3]
         expiry == SetExpiry(elems, now)
     IN /\ cache' = StorageSet(cache, key, value, expiry.exp)
        /\ hist' = HistPut(key,
             [NoHist EXCEPT !.set = <<[v |-> value,
                                       exp |-> RequestedExpiry(elems, now)]>>,
                            !.listOnly = FALSE])
        /\ scen' = ScenSpoil(key)
        /\ UNCHANGED <<waiting_clients, tflag>>
        /\ nops' = nops + 1
        /\ SetStep(c, "applied", <<>>, NoPropagation,
                   [NoCall EXCEPT !.pc = "reply", !.elems = elems, !.start = now])

\* handle_set: self.connection.sendall(response)
SetReply(c) ==
  /\ calls[c].pc = "reply"
  /\ SetStep(c, "replied", Replied(c, EncodeOk), NoPropagation,
             [calls[c] EXCEPT !.pc = "propagate"])
  /\ StoreUntouched
  /\ UNCHANGED nops

\* handle_set: propagate_to_replicas(payload), whose current_sequence is
\* kept as the result of the call
SetPropagate(c) ==
  /\ calls[c].pc = "propagate"
  /\ LET p == PropagateToReplicas(SetPayload(calls[c].elems[2], calls[c].elems[3]))
     IN SetStep(c, "propagated", p.writes, p,
                [calls[c] EXCEPT !.pc = "idle", !.ret = p.ws])
  /\ StoreUntouched
  /\ UNCHANGED nops

(* Two client sessions send SET commands to a master while a connection
   becomes a replica. *)
SetClients == {"c1", "c3"}
SetReplicas == {"c2"}
SetValues == {Text("a"), Text("b")}
SetInputs == {<<Text("SET"), Text("k1"), v>> : v \in SetValues}

NextSet ==
  \/ \E c \in SetClients, elems \in SetInputs : SetApply(c, elems)
  \/ \E c \in SetClients : SetReply(c)
  \/ \E c \in SetClients : SetPropagate(c)
  \/ \E c \in SetReplicas : ReplCommand(c, PsyncInput)

SpecSet == Init /\ [][NextSet]_vars

\* no handler is between two of its lines
Quiet == \A c \in Conns : calls[c].pc = "idle"

\* the places of the socket of r where a SET of key k was written
SetFrames(r, k) ==
  {i \in 1..Len(sock[r]) : \E v \in SetValues : sock[r][i] = SetPayload(k, v)}

\* the value of the last SET of key k written to r
LastPropagated(r, k) ==
  LET i == CHOOSE j \in SetFrames(r, k) : \A h \in SetFrames(r, k) : h <= j
  IN CHOOSE v \in SetValues : sock[r][i] = SetPayload(k, v)

(* C12: once the SET handlers of all sessions have returned, for every
   replica and every key of which a SET was propagated to it, the last value
   propagated is the value the master holds. *)
C12_PropagatedInApplyOrder ==
  Quiet => \A r \in SetOf(replica_connections), k \in Keys :
             SetFrames(r, k) # {}
               => /\ k \in DOMAIN cache
                  /\ cache[k].val = PyStr(LastPropagated(r, k))

\* the SET of the running call of c was written to the socket of r
PropagatedBy(c, r) ==
  \E i \in 1..Len(sock[r]) :
    /\ sent[r][i] = calls[c].ret
    /\ sock[r][i] = SetPayload(calls[c].elems[2], calls[c].elems[3])

(* C13: when +OK has just been written to the client of a SET, the key is in
   the store of the master, the write has its sequence number and its frame
   is written to the socket of every connected replica. *)
C13_OkAfterApplyAndPropagate ==
  last.op = "replied"
    => /\ last.key \in DOMAIN cache
       /\ calls[last.conn].ret > 0
       /\ \A r \in last.reps : PropagatedBy(last.conn, r)

---------------------------------------------------------------------------
(* A server, master or replica of another, that is sent commands with too
   few arguments or with arguments int() does not take, among sound ones,
   while connections ask it for the replication stream. *)
ErrInputs ==
  {<<Text("SET"), Text("k1"), Text("a")>>,
   <<Text("SET"), Text("k1"), Text("b"), Text("PX"), Text("x")>>,
   <<Text("SET"), Text("k1")>>,
   <<Text("GET"), Text("k1")>>,
   <<Text("WAIT"), Text("x"), Text("1")>>,
   <<Text("WAIT"), Text("1"), Text("y")>>,
   <<Text("WAIT"), Text("1")>>,
   <<Text("LRANGE"), Text("k1"), Text("x"), Text("1")>>,
   <<Text("LRANGE"), Text("k1"), Text("0")>>}

MaxErrCmds == 3    \* commands handled in one behaviour

\* connection c sends the command elems, which process_command dispatches
ErrCommand(c, elems) ==
  /\ nops < MaxErrCmds
  /\ session[c] = "open"
  /\ ProcessCommand(c, elems)
  /\ UNCHANGED wire

NextErr ==
  \/ \E c \in Clients, elems \in ErrInputs : Named(elems, "set") /\ ErrCommand(c, elems)
  \/ \E c \in Clients, elems \in ErrInputs : Named(elems, "get") /\ ErrCommand(c, elems)
  \/ \E c \in Clients, elems \in ErrInputs : Named(elems, "wait") /\ ErrCommand(c, elems)
  \/ \E c \in Clients, elems \in ErrInputs : Named(elems, "lrange") /\ ErrCommand(c, elems)
  \/ \E c \in ReplicaConns : ErrCommand(c, PsyncInput)

\* the state after construction, with the role the configuration gives
InitErr ==
  /\ cache = EmptyDict
  /\ now = 0
  /\ waiting_clients = [k \in Keys |-> <<>>]
  /\ hist = [k \in Keys |-> NoHist]
  /\ last = [NoLast EXCEPT !.ret = <<>>]
  /\ nops = 0
  /\ InitBlock /\ wire = NoWire
  /\ role \in {"master", "slave"}
  /\ replica_connections = <<>>
  /\ write_sequence = 0
  /\ pending_acks = EmptyDict
  /\ replica_offsets = EmptyDict
  /\ sock = [c \in Conns |-> <<>>]
  /\ broken = {}
  /\ session = [c \in Conns |-> "open"]
  /\ replica = [c \in Conns |-> NoReplica]
  /\ calls = [c \in Conns |-> NoCall]
  /\ sent = [c \in Conns |-> <<>>]

SpecErr == InitErr /\ [][NextErr]_vars

\* int() raises on an argument the handler of the command converts
IntArgFails(elems) ==
  \/ /\ Named(elems, "set") /\ Len(elems) >= 5 /\ Upper(elems[4]) = Text("PX")
     /\ ~PyIntOf(elems[5]).ok
  \/ /\ Named(elems, "wait") /\ Len(elems) >= 3
     /\ (~PyIntOf(elems[2]).ok \/ ~PyIntOf(elems[3]).ok)
  \/ /\ Named(elems, "lrange") /\ Len(elems) >= 4
     /\ (~PyIntOf(elems[3]).ok \/ ~PyIntOf(elems[4]).ok)

(* C18: a command whose integer argument does not parse is answered with
   the one frame -ERR value is not an integer or out of range, written to
   its own connection, and its session stays open. *)
C18_IntegerErrorAnswered ==
  (last.op = "cmd" /\ IntArgFails(last.args))
    => /\ last.log = Replied(last.conn, EncodeError(ValueNotInteger))
       /\ session[last.conn] = "open"

\* the reply of the last command is an arity error or the integer error
ErrorReplied(l) ==
  /\ l.op = "cmd"
  /\ \/ l.ret = EncodeError(ValueNotInteger)
     \/ l.ret = EncodeError(WrongNumberOfArgs(Upper(l.args[1])))

(* C19: a command answered with an arity error or the integer error leaves
   the store, the write sequence, the pending-acks map and the bytes written
   to the sockets of the other connections as they were. *)
C19_RejectedHasNoEffect ==
  [][(nops' = nops + 1 /\ ErrorReplied(last'))
       => /\ cache' = cache
          /\ write_sequence' = write_sequence
          /\ pending_acks' = pending_acks
          /\ \A r \in Conns \ {last'.conn} : sock'[r] = sock[r]]_vars

\* a SET with a PX that is no integer was refused on a master that has a
\* replica and has propagated a write
C19_Witness ==
  /\ ErrorReplied(last) /\ LastWas("set") /\ IntArgFails(last.args)
  /\ role = "master" /\ last.reps # {} /\ write_sequence > 0

(* C20: PSYNC on a server that is no master is answered with the one frame
   -ERR PSYNC not supported in this role, the connection is not among the
   replicas, and its session stays open for the commands that follow. *)
C20_PsyncRefusedKeepsSession ==
  (last.op = "cmd" /\ Named(last.args, "psync") /\ role # "master")
    => /\ last.log = Replied(last.conn, EncodeError(PsyncNotSupported))
       /\ last.conn \notin SetOf(replica_connections)
       /\ session[last.conn] = "open"

---------------------------------------------------------------------------
(* The kind of the value of a key, from one call of the store to the next *)

\* the key k is in the store before and after the step
Survives(k) == k \in DOMAIN cache /\ k \in DOMAIN cache'

\* the step was the call op on key k
Called(op, k) == nops' = nops + 1 /\ last'.op = op /\ last'.key = k

(* C22: no step of the store changes the kind of the value of a key that is
   in the store before and after it: a string stays a string and a list
   stays a list. *)
C22_KindFixedForLife ==
  [][\A k \in Keys : Survives(k) => cache'[k].val.t = cache[k].val.t]_vars

(* C22, as the store is meant to work: the kind of a key that stays in the
   store changes only by set, which leaves a string, and by rpush or lpush
   on a key that holds a string, which leave a list; get, delete, llen and
   lpop never change it. *)
C22_KindChangesOnlyByWrite ==
  [][\A k \in Keys :
       (Survives(k) /\ cache'[k].val.t # cache[k].val.t)
         => \/ Called("set", k) /\ cache'[k].val.t = "str"
            \/ /\ Called("rpush", k) \/ Called("lpush", k)
               /\ cache[k].val.t = "str"
               /\ cache'[k].val.t = "list"]_vars

\* a key that was set, and not deleted since, holds a list
C22_Witness ==
  \E k \in DOMAIN cache : ~hist[k].listOnly /\ IsList(cache[k].val)

---------------------------------------------------------------------------
\* the list the claim takes a push to start from
OldList(k) ==
  IF k \notin DOMAIN cache THEN <<>>
  ELSE IF cache[k].val.t = "list" THEN cache[k].val.x
  ELSE <<cache[k].val.x>>

\* v1..vn from the last to the first
Backwards(values) == [i \in 1..Len(values) |-> values[Len(values) + 1 - i]]

(* C24: rpush(k, v1..vn) leaves k holding old ++ [v1..vn] and lpush(k,
   v1..vn) leaves k holding [vn..v1] ++ old, where old is empty for a missing
   key, the list of a list key and [s] for a key that holds the string s;
   both return the length of the list they leave. *)
C24_PushLeavesList ==
  [][\A k \in Keys :
       /\ Called("rpush", k)
            => /\ k \in DOMAIN cache'
               /\ cache'[k].val = PyList(OldList(k) \o last'.args)
               /\ last'.ret = PyInt(Len(OldList(k)) + Len(last'.args))
       /\ Called("lpush", k)
            => /\ k \in DOMAIN cache'
               /\ cache'[k].val = PyList(Backwards(last'.args) \o OldList(k))
               /\ last'.ret = PyInt(Len(OldList(k)) + Len(last'.args))]_vars

\* two values were put in front of a key that held a string
C24_Witness ==
  /\ last.op = "lpush" /\ Len(last.args) = 2 /\ last.args[1] # last.args[2]
  /\ last.ret = PyInt(3)
  /\ ~hist[last.key].listOnly
  /\ hist[last.key].pushed = 2

(* C25: lpop(k, n) on a list of L elements returns its first min(n, L)
   elements in order and leaves the other L - min(n, L) in place, also when
   n > L; on a missing key or a key that holds no list it returns None and
   leaves the store as it was. *)
C25_LpopTakesHead ==
  [][\A k \in Keys :
       Called("lpop", k) =>
         IF k \in DOMAIN cache /\ cache[k].val.t = "list"
         THEN LET old == cache[k].val.x
                  m == Min(last'.args[1], Len(old))
              IN /\ last'.ret = PyList(SubSeq(old, 1, m))
                 /\ k \in DOMAIN cache'
                 /\ cache'[k].val = PyList(SubSeq(old, m + 1, Len(old)))
         ELSE last'.ret = PyNone /\ cache' = cache]_vars

---------------------------------------------------------------------------
(* One connection whose client writes several command frames; the bytes
   reach the session in reads that end anywhere, as a stream socket
   delivers them. *)
MaxReads == 3      \* calls of recv that return bytes in one behaviour

RecvSize == 1024   \* client_handler.py: self.connection.recv(1024)

SplitConn == "c1"

\* the frame sequences a client writes
SplitStreams ==
  {<<ClientCommand(<<Text("SET"), Text("k1"), Text("a")>>),
     ClientCommand(<<Text("GET"), Text("k1")>>)>>,
   <<ClientCommand(<<Text("GET"), Text("k1")>>),
     ClientCommand(<<Text("GET"), Text("k2")>>)>>}

\* the client writes the frames one after the other
ClientSendFrames(frames) ==
  /\ wire.phase = "start"
  /\ wire' = [phase |-> "sent", key |-> <<>>, val |-> <<>>,
              inbuf |-> Joined(frames, 1, Len(frames)),
              frames |-> frames, reads |-> 0, byframe |-> TRUE]
  /\ UNCHANGED <<storeVars, blockVars, histVars, replVars>>

\* ClientHandler.handle, one turn of its loop: recv returns the first n
\* bytes that have arrived, which are decoded, parsed and dispatched
SessionRecvSome(c, n) ==
  /\ session[c] = "open"
  /\ wire.phase = "sent"
  /\ wire.reads < MaxReads
  /\ n <= RecvSize
  /\ LET data == SubSeq(wire.inbuf, 1, n)
         text == Utf8Decode(data)
         parsed == IF text.ok THEN ParseResp(text.s)
                   ELSE [ok |-> FALSE, elems |-> <<>>]
     IN /\ wire' = [wire EXCEPT
                      !.inbuf = SubSeq(@, n + 1, Len(@)),
                      !.reads = @ + 1,
                      !.byframe = /\ @
                                  /\ wire.reads < Len(wire.frames)
                                  /\ data = wire.frames[wire.reads + 1]]
        /\ IF ~parsed.ok THEN Raised(c, <<>>)
           ELSE IF parsed.elems = <<>>
           THEN UNCHANGED <<storeVars, blockVars, histVars, replVars>>
           ELSE ProcessCommand(c, parsed.elems)

InitSplit ==
  /\ InitStore /\ InitBlock /\ InitRepl
  /\ wire = [phase |-> "start", key |-> <<>>, val |-> <<>>, inbuf |-> <<>>,
             frames |-> <<>>, reads |-> 0, byframe |-> TRUE]

NextSplit ==
  \/ \E frames \in SplitStreams : ClientSendFrames(frames)
  \/ \E n \in 1..Len(wire.inbuf) : SessionRecvSome(SplitConn, n)

SpecSplit == InitSplit /\ [][NextSplit]_vars

\* the replies to the SET and GET frames, each read and handled on its
\* own, on the store c at time 0
RECURSIVE FrameReplies(_, _)
FrameReplies(frames, c) ==
  IF frames = <<>> THEN <<>>
  ELSE LET elems == ParseResp(Utf8Decode(frames[1]).s).elems
       IN IF Named(elems, "set")
          THEN <<EncodeOk>>
               \o FrameReplies(Tail(frames), StorageSet(c, elems[2], elems[3], NoExpiry))
          ELSE <<EncodeBulkString(StorageGet(c, elems[2], 0).ret)>>
               \o FrameReplies(Tail(frames), c)

\* every byte the client wrote has been read
Consumed == wire.phase = "sent" /\ wire.inbuf = <<>>

(* C21: once the session has read all the bytes of a sequence of frames,
   however they were cut into reads, it has written the replies that it
   writes when every frame comes in a read of its own, and it is open. *)
C21_RepliesWhateverTheReads ==
  Consumed => /\ sock[SplitConn] = FrameReplies(wire.frames, EmptyDict)
              /\ session[SplitConn] = "open"

---------------------------------------------------------------------------
(* Storage called by two sessions at once.  Every session runs in a thread
   of its own; set and get take no lock, rpush holds Storage._lock.  A step
   is one access of self._cache; the clock stands still and no caller of
   blpop waits. *)
RaceSessions == {"c1", "c2"}

\* the store the calls start from: k1 holds a string that expires after
\* time 0, k2 holds a list
RaceStore ==
  DictPut(DictPut(EmptyDict, Text("k1"), [val |-> PyStr(Text("a")), exp |-> <<0>>]),
          Text("k2"), [val |-> PyList(<<Text("a")>>), exp |-> NoExpiry])

RaceCalls ==
  {<<Text("get"), Text("k1")>>,
   <<Text("set"), Text("k1"), Text("b")>>,
   <<Text("rpush"), Text("k1"), Text("b")>>,
   <<Text("set"), Text("k2"), Text("b")>>,
   <<Text("rpush"), Text("k2"), Text("b")>>}

\* the call of session c: where it stands, its local variables and what it
\* returned
RaceCall(at, elems, local, out) ==
  [pc |-> at, elems |-> elems, target |-> 0, start |-> 0, ret |-> 0,
   local |-> local, out |-> out]

\* Storage._lock is held by a session inside rpush
LockHeld == \E c \in RaceSessions : calls[c].pc \in {"rpush_read", "rpush_write"}

\* a step of session c that leaves the cache as c2 and the call as call
RaceStep(c, c2, call) ==
  /\ cache' = c2
  /\ calls' = [calls EXCEPT ![c] = call]
  /\ UNCHANGED <<now, blockVars, histVars, wire, role, replica_connections,
                 write_sequence, pending_acks, replica_offsets, sock, broken,
                 session, replica, sent>>

\* Storage.set
RaceSet(c, elems) ==
  /\ calls[c].pc = "idle"
  /\ RaceStep(c, StorageSet(cache, elems[2], elems[3], NoExpiry),
              RaceCall("done", elems, <<>>, PyNone))

\* Storage.get: if key not in self._cache
GetCheck(c, elems) ==
  /\ calls[c].pc = "idle"
  /\ RaceStep(c, cache,
              IF elems[2] \notin DOMAIN cache
              THEN RaceCall("done", elems, <<>>, PyNone)
              ELSE RaceCall("get_read", elems, <<>>, PyNone))

\* Storage.get: value, expiry = self._cache[key], and the test of the expiry
GetRead(c) ==
  /\ calls[c].pc = "get_read"
  /\ LET key == calls[c].elems[2]
     IN RaceStep(c, cache,
          IF key \notin DOMAIN cache
          THEN RaceCall("done", calls[c].elems, <<>>, PyRaise("KeyError"))
          ELSE IF Expired(cache[key].exp, now)
          THEN RaceCall("get_del", calls[c].elems, <<>>, PyNone)
          ELSE RaceCall("done", calls[c].elems, <<>>, cache[key].val))

\* Storage.get: del self._cache[key]
GetDel(c) ==
  /\ calls[c].pc = "get_del"
  /\ LET key == calls[c].elems[2]
     IN IF key \notin DOMAIN cache
        THEN RaceStep(c, cache,
                      RaceCall("done", calls[c].elems, <<>>, PyRaise("KeyError")))
        ELSE RaceStep(c, DictDel(cache, key),
                      RaceCall("done", calls[c].elems, <<>>, PyNone))

\* Storage.rpush: the lock is taken, if key in self._cache
RpushCheck(c, elems) ==
  /\ calls[c].pc = "idle"
  /\ ~LockHeld
  /\ RaceStep(c, cache,
              IF elems[2] \in DOMAIN cache
              THEN RaceCall("rpush_read", elems, <<>>, PyNone)
              ELSE RaceCall("rpush_write", elems,
                            [l |-> SubSeq(elems, 3, Len(elems)), exp |-> NoExpiry],
                            PyNone))

\* Storage.rpush: current_value, expiry = self._cache[key], and extend: a
\* list is extended in place, in the cache as well
RpushRead(c) ==
  /\ calls[c].pc = "rpush_read"
  /\ LET key == calls[c].elems[2]
         values == SubSeq(calls[c].elems, 3, Len(calls[c].elems))
     IN IF key \notin DOMAIN cache
        THEN RaceStep(c, cache,
                      RaceCall("done", calls[c].elems, <<>>, PyRaise("KeyError")))
        ELSE LET b == PushBase(cache, key)
                 l == b.l \o values
             IN RaceStep(c,
                  IF IsList(cache[key].val)
                  THEN DictPut(cache, key, [val |-> PyList(l), exp |-> b.exp])
                  ELSE cache,
                  RaceCall("rpush_write", calls[c].elems,
                           [l |-> l, exp |-> b.exp], PyNone))

\* Storage.rpush: self._cache[key] = (current_value, expiry), the length is
\* returned and the lock released
RpushWrite(c) ==
  /\ calls[c].pc = "rpush_write"
  /\ LET key == calls[c].elems[2]
         local == calls[c].local
     IN RaceStep(c, DictPut(cache, key, [val |-> PyList(local.l), exp |-> local.exp]),
                 RaceCall("done", calls[c].elems, <<>>, PyInt(Len(local.l))))

InitRace ==
  /\ cache = RaceStore
  /\ now \in {0, 1}
  /\ waiting_clients = [k \in Keys |-> <<>>]
  /\ hist = [k \in Keys |-> NoHist]
  /\ last = NoLast
  /\ nops = 0
  /\ InitBlock /\ InitRepl /\ wire = NoWire

NextRace ==
  \/ \E c \in RaceSessions, elems \in RaceCalls : Named(elems, "set") /\ RaceSet(c, elems)
  \/ \E c \in RaceSessions, elems \in RaceCalls : Named(elems, "get") /\ GetCheck(c, elems)
  \/ \E c \in RaceSessions : GetRead(c)
  \/ \E c \in RaceSessions : GetDel(c)
  \/ \E c \in RaceSessions, elems \in RaceCalls : Named(elems, "rpush") /\ RpushCheck(c, elems)
  \/ \E c \in RaceSessions : RpushRead(c)
  \/ \E c \in RaceSessions : RpushWrite(c)

SpecRace == InitRace /\ [][NextRace]_vars

\* the call elems made alone on the store c: the store it leaves and what
\* it returns
Alone(c, elems) ==
  IF Named(elems, "set")
  THEN [cache |-> StorageSet(c, elems[2], elems[3], NoExpiry), ret |-> PyNone]
  ELSE IF Named(elems, "get") THEN StorageGet(c, elems[2], now)
  ELSE LET r == StorageRpush(c, elems[2], SubSeq(elems, 3, Len(elems)))
       IN [cache |-> r.cache, ret |-> PyInt(r.ret)]

\* two values of Python are equal
SameValue(a, b) == a.t = b.t /\ (a.t = "None" \/ a.x = b.x)

SameStore(c, d) ==
  /\ DOMAIN c = DOMAIN d
  /\ \A k \in DOMAIN c : SameValue(c[k].val, d[k].val) /\ c[k].exp = d[k].exp

\* the calls of both sessions returned what they return, and left the store
\* they leave, when first runs alone and then second
AsInOrder(first, second) ==
  LET a == Alone(RaceStore, calls[first].elems)
      b == Alone(a.cache, calls[second].elems)
  IN /\ SameValue(calls[first].out, a.ret)
     /\ SameValue(calls[second].out, b.ret)
     /\ SameStore(cache, b.cache)

(* C23: when the calls of two sessions on the store have both returned,
   what they returned and the store they left are those of the two calls
   made one after the other, in one of the two orders; in particular no
   call has raised and no write is lost. *)
C23_CallsAreSerializable ==
  (\A c \in RaceSessions : calls[c].pc = "done")
    => AsInOrder("c1", "c2") \/ AsInOrder("c2", "c1")

---------------------------------------------------------------------------
\* the writes of the command just handled that went to the socket of r
WrittenTo(l, r) == {i \in 1..Len(l.log) : l.log[i].to = r}

\* the step handled a SET that was accepted
SetAccepted ==
  /\ nops' = nops + 1
  /\ last'.op = "cmd"
  /\ Named(last'.args, "set")
  /\ last'.ret = EncodeOk

(* C26: in the propagation of an accepted SET on a master, every replica
   whose socket is sound is written the frame exactly once and stays in the
   replica collection, also when the write to another replica fails; every
   replica whose socket is broken leaves the collection and every
   pending-ack set. *)
C26_PropagateReachesLiveReplicas ==
  [][(SetAccepted /\ role = "master")
       => \A r \in SetOf(replica_connections) :
            /\ r \notin broken
                 => /\ Cardinality(WrittenTo(last', r)) = 1
                    /\ \A i \in WrittenTo(last', r) :
                         last'.log[i].data = SetPayload(last'.args[2], last'.args[3])
                    /\ r \in SetOf(replica_connections')
            /\ r \in broken
                 => /\ r \notin SetOf(replica_connections')
                    /\ \A seq \in DOMAIN pending_acks' : r \notin pending_acks'[seq]]_vars

(* C27: after every operation of the master, a SET with its propagation,
   the GETACK broadcast of WAIT, a turn of the loop of WAIT, every replica
   that is in a pending-ack set is in the replica collection. *)
C27_PendingAreReplicas ==
  \A seq \in DOMAIN pending_acks :
    pending_acks[seq] \subseteq SetOf(replica_connections)

---------------------------------------------------------------------------
(* handle_psync on a master seen line by line, while the session of a
   client has its SET commands handled: every session runs in a thread of
   its own and handle_psync takes no lock. *)

\* what one line of handle_psync on connection c leaves behind
PsyncStep(c, writes, p, at) ==
  /\ sock' = Written(sock, writes)
  /\ sent' = Tagged(sent, writes, c, 0)
  /\ replica_connections' = p.rc
  /\ pending_acks' = p.pa
  /\ replica_offsets' = p.ro
  /\ write_sequence' = p.ws
  /\ session' = [session EXCEPT ![c] = IF at = "idle" THEN "detached" ELSE "busy"]
  /\ calls' = [calls EXCEPT ![c] = [NoCall EXCEPT !.pc = at, !.elems = PsyncInput]]
  /\ last' = [NoLast EXCEPT !.op = "psync", !.key = PsyncInput[2],
                            !.args = PsyncInput, !.ret = <<>>, !.at = now,
                            !.conn = c, !.log = writes,
                            !.reps = SetOf(replica_connections),
                            !.seq = write_sequence]
  /\ UNCHANGED <<now, nops, role, broken, pc, tkey, ttimeout, tret, tenq,
                 replica, wire>>
  /\ StoreUntouched

\* handle_psync: self.server.replication.add_replica_connection
PsyncAdd(c) ==
  /\ session[c] = "open"
  /\ role = "master"
  /\ PsyncStep(c, <<>>, AddReplicaConnection(c), "fullresync")

\* handle_psync: self.connection.sendall(resp1)
PsyncSendLine(c) ==
  /\ calls[c].pc = "fullresync"
  /\ PsyncStep(c, Replied(c, EncodeFullresync(master_replid, 0)),
               NoPropagation, "rdb")

\* handle_psync: self.connection.sendall(resp2), and the handler returns
PsyncSendRdb(c) ==
  /\ calls[c].pc = "rdb"
  /\ PsyncStep(c, Replied(c, EncodeRdbFile(EmptyRdb)), NoPropagation, "idle")

WritesDuringPsync ==
  {<<Text("SET"), Text("k1"), Text("a")>>,
   <<Text("SET"), Text("k2"), Text("b")>>}

NextPsync ==
  \/ \E c \in Clients, elems \in WritesDuringPsync : ReplCommand(c, elems)
  \/ \E c \in ReplicaConns : PsyncAdd(c)
  \/ \E c \in ReplicaConns : PsyncSendLine(c)
  \/ \E c \in ReplicaConns : PsyncSendRdb(c)

SpecPsync == Init /\ [][NextPsync]_vars

(* C28: a propagated command frame is written to the socket of a replica
   only after the line +FULLRESYNC <replid> 0 and the RDB blob, which are
   the first two writes on it. *)
C28_NothingBeforeTheSnapshot ==
  \A r \in ReplicaConns : \A i \in 1..Len(sock[r]) :
    sent[r][i] > 0
      => /\ i > 2
         /\ sock[r][1] = EncodeFullresync(master_replid, 0)
         /\ sock[r][2] = EncodeRdbFile(EmptyRdb)

---------------------------------------------------------------------------
(* A WAIT and the writes of another session: the client of c1 sends SET and
   WAIT, the client of c3 sends SET while the handler of c1 is in the loop
   of wait_for_acks, and the replica of c2 reads the stream and answers. *)
AckClients == {"c1", "c3"}
AckWaiters == {"c1"}
AckReplicas == {"c2"}

AckInputs ==
  {<<Text("SET"), Text("k1"), Text("a")>>,
   <<Text("WAIT"), Text("1"), Text("1")>>,
   <<Text("WAIT"), Text("1"), Text("0")>>}

NextAck ==
  \/ \E c \in AckClients, elems \in AckInputs : Named(elems, "set") /\ ReplCommand(c, elems)
  \/ \E c \in AckWaiters, elems \in AckInputs : Named(elems, "wait") /\ ReplCommand(c, elems)
  \/ \E c \in AckReplicas : ReplCommand(c, PsyncInput)
  \/ \E r \in AckReplicas : \E j \in 2..Len(sock[r]) : ReplicaHandshake(r, j)
  \/ \E r \in AckReplicas : \E j \in 1..Len(sock[r]) : ReplicaRecv(r, j)
  \/ \E c \in AckWaiters : WaitPoll(c)
  \/ \E c \in AckWaiters : WaitExpire(c)

SpecAck == InitWait /\ [][NextAck]_vars

\* this step is read_replica_responses reading a REPLCONF ACK of replica r
AckRead(r) ==
  /\ replica[r].out # <<>>
  /\ replica'[r].out = <<>>
  /\ ParseReplicaResponse(Joined(replica[r].out, 1, Len(replica[r].out))).ok

\* r is not waited for at sequence seq in the pending-ack map pa
NotPending(pa, seq, r) == seq \notin DOMAIN pa \/ r \notin pa[seq]

(* C29: when a WAIT with target T reads a REPLCONF ACK of replica R, R
   leaves the pending-ack set of every sequence <= T and the sets of the
   sequences > T stay as they were. *)
C29_AckCountsUpToTarget ==
  [][\A c \in AckWaiters, r \in AckReplicas :
       calls[c].pc = "wait" /\ AckRead(r)
         => \A seq \in DOMAIN pending_acks :
              IF seq <= calls[c].target
              THEN NotPending(pending_acks', seq, r)
              ELSE /\ seq \in DOMAIN pending_acks'
                   /\ pending_acks'[seq] = pending_acks[seq]]_vars

---------------------------------------------------------------------------
(* The propagation stream read in chunks of any size: a client session
   sends SET and WAIT, the replica of c2 ends its handshake with the
   FULLRESYNC line and the RDB file, and each recv of its propagation
   thread returns some of the bytes the master has written since. *)
ChunkReplicas == {"c2"}

ChunkInputs ==
  {<<Text("SET"), Text("k1"), Text("a")>>,
   <<Text("WAIT"), Text("1"), Text("0")>>}

\* the bytes the master wrote to r after the writes the handshake took
StreamOf(r) == Joined(sock[r], replica[r].taken + 1, Len(sock[r]))

\* handle_master_propagation, one turn of its outer loop: recv returns the
\* next n bytes of the stream (wire.read counts the bytes returned so
\* far), then the inner loop
ChunkRecv(r, n) ==
  /\ replica[r].phase = "streaming"
  /\ n \in 1..Min(RecvSize, Len(StreamOf(r)) - wire.read)
  /\ LET data == SubSeq(StreamOf(r), wire.read + 1, wire.read + n)
     IN replica' = [replica EXCEPT ![r] =
          ProcessBuffer([@ EXCEPT !.buffer = @ \o data])]
  /\ wire' = [wire EXCEPT !.read = @ + n]
  /\ UNCHANGED <<storeVars, blockVars, histVars, role, replica_connections,
                 write_sequence, pending_acks, replica_offsets, sock, broken,
                 session, calls, sent>>

InitChunk ==
  /\ InitStore /\ InitBlock /\ InitRepl
  /\ wire = [phase |-> "off", key |-> <<>>, val |-> <<>>, inbuf |-> <<>>,
             read |-> 0]

NextChunk ==
  \/ \E c \in Clients, elems \in ChunkInputs : Named(elems, "set") /\ ReplCommand(c, elems)
  \/ \E c \in Clients, elems \in ChunkInputs : Named(elems, "wait") /\ ReplCommand(c, elems)
  \/ \E c \in ChunkReplicas : ReplCommand(c, PsyncInput)
  \/ \E r \in ChunkReplicas : ReplicaHandshake(r, 2)
  \/ \E r \in ChunkReplicas : \E n \in 1..Len(StreamOf(r)) : ChunkRecv(r, n)
  \/ \E c \in Clients : WaitExpire(c)

SpecChunk == InitChunk /\ [][NextChunk]_vars

\* recv has returned every byte the master wrote to r after the handshake
StreamConsumed(r) ==
  /\ replica[r].phase # "off"
  /\ StreamOf(r) # <<>>
  /\ wire.read = Len(StreamOf(r))

(* C30: however the recv calls cut the propagation stream, once the
   replica has consumed it its replication offset is the number of bytes
   of the command frames the master wrote after the handshake. *)
C30_OffsetIsBytesSent ==
  \A r \in ChunkReplicas :
    StreamConsumed(r) => replica[r].replication_offset = Len(StreamOf(r))

---------------------------------------------------------------------------
(* The frame extractor of the replica on its own: the buffer holds the first
   bytes of a frame the master writes, cut at any place, or the whole
   frame followed by the start of the next. *)
ExtractFrames ==
  {ClientCommand(<<Text("SET"), Text("k1"), Text("a")>>),
   GetackCommand,
   EncodeBulkString(PyStr(Text("k1"))),
   EncodeOk}

\* the buffer is the first cut bytes of frame followed by more; found is
\* what the extractor returned for it
BufferCut(frame, cut, more) ==
  [phase |-> "buffered", key |-> <<>>, val |-> <<>>,
   inbuf |-> SubSeq(frame, 1, cut) \o more,
   frame |-> frame, found |-> NoMessage]

InitExtract ==
  /\ InitStore /\ InitBlock /\ InitRepl
  /\ \E frame \in ExtractFrames : \E cut \in 1..Len(frame),
        more \in {<<>>, Text("*3") \o CRLF} :
       /\ more # <<>> => cut = Len(frame)
       /\ wire = BufferCut(frame, cut, more)

\* handle_master_propagation: extract_complete_resp_message(buffer)
ExtractFromBuffer ==
  /\ wire.phase = "buffered"
  /\ wire' = [wire EXCEPT !.phase = "extracted",
                          !.found = ExtractCompleteRespMessage(wire.inbuf)]
  /\ UNCHANGED <<storeVars, blockVars, histVars, replVars>>

NextExtract == ExtractFromBuffer

SpecExtract == InitExtract /\ [][NextExtract]_vars

(* C31: for a buffer that is a proper prefix of a frame the extractor
   returns None, and a frame it returns is a prefix of the buffer, byte
   for byte. *)
C31_ExtractorNeverTakesPartialFrame ==
  wire.phase = "extracted"
    => /\ Len(wire.inbuf) < Len(wire.frame) => wire.found.none
       /\ ~wire.found.none => BeginsWith(wire.inbuf, wire.found.msg)

---------------------------------------------------------------------------
(* Leftover bytes of the handshake, under SpecRepl *)

\* the replica of r had it read the FULLRESYNC line and the RDB file alone
\* in its handshake and then each of the writes 3..i in a recv of its own
RECURSIVE LaterRecv(_, _)
LaterRecv(r, i) ==
  IF i <= 2
  THEN [NoReplica EXCEPT !.phase = "streaming", !.taken = 2,
                         !.buffer = StartBuffer(PendingData(Joined(sock[r], 1, 2)))]
  ELSE ProcessBuffer([LaterRecv(r, i - 1) EXCEPT !.buffer = @ \o sock[r][i],
                                                 !.taken = i])

\* the replica records a and b applied the same commands, reached the same
\* offset and wrote the same replies
SameProgress(a, b) ==
  /\ a.cache = b.cache
  /\ a.replication_offset = b.replication_offset
  /\ a.acks = b.acks

\* the GETACK commands among the first n writes of the master on r
GetacksIn(r, n) == {i \in GetackPlaces(r) : i <= n}

(* C32: a replica whose handshake recv carried the start of the
   propagation stream is, after every later recv, where it would be had
   those bytes come in recvs of their own; and every GETACK it has
   received, in the leftover too, is answered. *)
C32_LeftoverIsTheStream ==
  /\ [][\A r \in StreamReplicas :
          (replica[r].phase = "streaming" /\ replica'[r].taken > replica[r].taken)
            => SameProgress(replica'[r], LaterRecv(r, replica'[r].taken))]_vars
  /\ [](\A r \in StreamReplicas :
          replica[r].phase = "streaming"
            => Len(replica[r].acks) = Cardinality(GetacksIn(r, replica[r].taken)))

---------------------------------------------------------------------------
(* The replica and the stream of any master: the handshake is over, the
   master at the far end of c2 writes command frames one after another,
   and each recv of the replica returns some of the bytes written. *)
MaxStreamFrames == 2

StreamFrames ==
  {ClientCommand(<<Text("SET"), Text("k1"), Text("a")>>),
   ClientCommand(<<Text("RPUSH"), Text("k2"), Text("a")>>),
   ClientCommand(<<Text("PING")>>),
   GetackCommand}

\* the master writes frame to the replica of r; a GETACK is tagged as such
MasterSends(r, frame) ==
  /\ Len(sock[r]) < 2 + MaxStreamFrames
  /\ sock' = [sock EXCEPT ![r] = Append(@, frame)]
  /\ sent' = [sent EXCEPT ![r] = Append(@, IF frame = GetackCommand THEN 0 - 1 ELSE 1)]
  /\ UNCHANGED <<storeVars, blockVars, histVars, wire, role, replica_connections,
                 write_sequence, pending_acks, replica_offsets, broken,
                 session, replica, calls>>

\* the master has answered PSYNC on c2 and the replica has read the
\* FULLRESYNC line and the RDB file, and nothing more
InitStream ==
  /\ InitStore /\ InitBlock
  /\ role = "master"
  /\ replica_connections = <<"c2">>
  /\ write_sequence = 0
  /\ pending_acks = EmptyDict
  /\ replica_offsets = DictPut(EmptyDict, "c2", 0)
  /\ sock = [c \in Conns |-> IF c = "c2"
                             THEN <<EncodeFullresync(master_replid, 0),
                                    EncodeRdbFile(EmptyRdb)>>
                             ELSE <<>>]
  /\ sent = [c \in Conns |-> IF c = "c2" THEN <<0, 0>> ELSE <<>>]
  /\ broken = {}
  /\ session = [c \in Conns |-> IF c = "c2" THEN "detached" ELSE "open"]
  /\ replica = [c \in Conns |-> IF c = "c2"
                                THEN [NoReplica EXCEPT !.phase = "streaming",
                                                       !.taken = 2, !.clean = TRUE]
                                ELSE NoReplica]
  /\ calls = [c \in Conns |-> NoCall]
  /\ wire = [phase |-> "off", key |-> <<>>, val |-> <<>>, inbuf |-> <<>>,
             read |-> 0]

NextStream ==
  \/ \E r \in ChunkReplicas, frame \in StreamFrames : MasterSends(r, frame)
  \/ \E r \in ChunkReplicas : \E n \in 1..Len(StreamOf(r)) : ChunkRecv(r, n)

SpecStream == InitStream /\ [][NextStream]_vars

\* reply is the frame of REPLCONF ACK <digits>
IsAckFrame(reply) ==
  LET elems == AckOffsetOf(reply)
  IN /\ Len(elems) = 3
     /\ elems[1] = Text("REPLCONF") /\ elems[2] = Text("ACK")
     /\ PyIntOf(elems[3]).ok
     /\ reply = AckResponse(PyIntOf(elems[3]).n)

\* the GETACK frames the master wrote to r whose first byte recv has returned
GetacksBegun(r) ==
  {i \in GetackPlaces(r) : i > 2 /\ BytesOf(r, 3, i - 1) < wire.read}

(* C33: everything the replica wrote to the master socket after the
   handshake is a REPLCONF ACK frame, and there are no more of them than
   REPLCONF GETACK frames received: no SET, RPUSH, PING or other frame is
   answered. *)
C33_OnlyAcksOnMasterSocket ==
  \A r \in ChunkReplicas :
    /\ replica[r].out = replica[r].acks
    /\ \A i \in 1..Len(replica[r].out) : IsAckFrame(replica[r].out[i])
    /\ Len(replica[r].out) <= Cardinality(GetacksBegun(r))

\* the replica has consumed a SET and a GETACK, cut into more than two
\* chunks, and written one reply
C33_Witness ==
  \E r \in ChunkReplicas :
    /\ Len(sock[r]) = 4
    /\ sock[r][3] = ClientCommand(<<Text("SET"), Text("k1"), Text("a")>>)
    /\ sock[r][4] = GetackCommand
    /\ wire.read = Len(StreamOf(r))
    /\ replica[r].replication_offset = Len(StreamOf(r))
    /\ replica[r].buffer = <<>>
    /\ Len(replica[r].out) = 1

---------------------------------------------------------------------------
(* Waiters and returned calls, under SpecBlpop *)

\* the callers whose event is in the queue of key k
Queued(k) == {waiting_clients[k][i] : i \in 1..Len(waiting_clients[k])}

(* C34: every waiter in the queue of a key belongs to a BLPOP call on that
   key that has not returned, once in the queue only; a call that has
   returned, with an element or with None, has its waiter in no queue. *)
C34_QueuedCallsHaveNotReturned ==
  /\ \A k \in Keys : \A i \in 1..Len(waiting_clients[k]) :
       LET t == waiting_clients[k][i]
       IN /\ pc[t] \in {"wait", "timedout"}
          /\ tkey[t] = k
          /\ \A j \in 1..Len(waiting_clients[k]) : waiting_clients[k][j] = t => j = i
  /\ \A t \in Threads : pc[t] \in {"idle", "done"} => \A k \in Keys : t \notin Queued(k)

\* one caller returned by timeout, one by delivery, and a third is queued
C34_Witness ==
  \E a, b, c \in Threads :
    /\ tenq[a] > 0 /\ pc[a] = "done" /\ tret[a] = PyNone
    /\ tenq[b] > 0 /\ pc[b] = "done" /\ tret[b] # PyNone
    /\ pc[c] = "wait" /\ c \in Queued(tkey[c])

---------------------------------------------------------------------------
(* What WAIT returns, under SpecWait *)

\* the last step wrote the reply of a WAIT to its client
WaitAnswered ==
  /\ last.args # <<>>
  /\ Named(last.args, "wait")
  /\ last.log # <<>>
  /\ last.ret # <<>>
  /\ last.ret[1] = 58

(* C35: the integer a WAIT returns is at least 0 and at most the number of
   replicas connected when it returns. *)
C35_WaitCountInRange ==
  WaitAnswered
    => /\ last.op = "waited" => calls[last.conn].ret \in 0..Len(replica_connections)
       /\ \E n \in 0..Len(replica_connections) :
            last.ret = EncodeInteger(n)

---------------------------------------------------------------------------
(* Storage.blpop with threads that run: a thread that can take its next
   step inside blpop takes it, and a timeout that can elapse does.  Calls
   and pushes come when the clients send them. *)
SpecBlpopRuns ==
  /\ Init /\ [][NextBlpop]_vars
  /\ \A t \in Threads :
       /\ WF_vars(BlpopEnqueue(t))
       /\ WF_vars(BlpopWake(t))
       /\ WF_vars(BlpopTimeout(t))
       /\ WF_vars(BlpopRemove(t))

\* a caller is blocked on key k, whose list has an element
BlockedOnElements(k) ==
  /\ StorageLlen(cache, k) > 0
  /\ \E t \in Threads : pc[t] = "wait" /\ tkey[t] = k

(* C36: no caller stays blocked for ever on a key whose list is not empty:
   whenever callers are blocked on k and k holds an element, later the list
   is empty or no caller is blocked on k. *)
C36_NoWaiterStarvesOnElements ==
  \A k \in BKeys : BlockedOnElements(k) ~> ~BlockedOnElements(k)

---------------------------------------------------------------------------
(* The elements of a list, counted over one step, under SpecBlpop *)

\* the elements of key k this step returned to a caller of lpop or blpop
ReturnedNow(k) ==
  (IF Called("lpop", k) /\ last'.ret.t = "list" THEN Len(last'.ret.x) ELSE 0)
  + Cardinality({t \in Threads : /\ tkey'[t] = k
                                 /\ pc[t] # "done" /\ pc'[t] = "done"
                                 /\ tret'[t] # PyNone})

\* the elements this step pushed on key k
PushedNow(k) == hist'[k].pushed - hist[k].pushed

(* C37: no step loses or doubles an element: the elements in the list
   after the step and those the step returned to a popper are the
   elements in the list before it and those the step pushed. *)
C37_ElementsConserved ==
  [][\A k \in BKeys :
       StorageLlen(cache', k) + ReturnedNow(k)
         = StorageLlen(cache, k) + PushedNow(k)]_vars

---------------------------------------------------------------------------
(* Expired strings and the operations that follow, under Spec *)

\* key k holds a string whose expiry instant has passed
HoldsExpiredString(k) ==
  /\ k \in DOMAIN cache
  /\ ~IsList(cache[k].val)
  /\ Expired(cache[k].exp, now)

(* C38: a string whose expiry instant has passed is not seen again: get
   returns None for it, and rpush and lpush on its key leave the list of
   the pushed values alone, without the expired string as an element. *)
C38_ExpiredStringNeverSeen ==
  [][\A k \in Keys :
       HoldsExpiredString(k)
         => /\ Called("get", k) => last'.ret = PyNone
            /\ Called("rpush", k)
                 => cache'[k].val = PyList(last'.args)
            /\ Called("lpush", k)
                 => cache'[k].val = PyList(Backwards(last'.args))]_vars

---------------------------------------------------------------------------
(* REPLCONF from a client: the client of c1 sends SET and WAIT, the replica
   of c2 connects and stays silent, and the client of c3, which never sends
   PSYNC, sends REPLCONF commands. *)
ReplconfClients == {"c3"}

ReplconfInputs ==
  {<<Text("REPLCONF"), Text("ACK"), Text("0")>>,
   <<Text("REPLCONF"), Text("GETACK"), Text("*")>>,
   <<Text("REPLCONF"), Text("capa"), Text("psync2")>>}

NextReplconf ==
  \/ \E c \in AckWaiters, elems \in AckInputs : Named(elems, "set") /\ ReplCommand(c, elems)
  \/ \E c \in AckWaiters, elems \in AckInputs : Named(elems, "wait") /\ ReplCommand(c, elems)
  \/ \E c \in AckReplicas : ReplCommand(c, PsyncInput)
  \/ \E c \in ReplconfClients, elems \in ReplconfInputs : ReplCommand(c, elems)
  \/ \E c \in AckWaiters : WaitPoll(c)
  \/ \E c \in AckWaiters : WaitExpire(c)

SpecReplconf == InitWait /\ [][NextReplconf]_vars

\* this step handled a REPLCONF ACK of connection c
AckFrom(c) ==
  /\ nops' = nops + 1
  /\ last'.conn = c
  /\ Named(last'.args, "replconf")
  /\ Len(last'.args) >= 3
  /\ Upper(last'.args[2]) = Text("ACK")

(* C39: a REPLCONF ACK of a connection that never sent PSYNC leaves the
   pending-ack map and the replica offsets as they were. *)
C39_ClientAckChangesNothing ==
  [][\A c \in ReplconfClients :
       (AckFrom(c) /\ c \notin SetOf(replica_connections))
         => /\ pending_acks' = pending_acks
            /\ replica_offsets' = replica_offsets]_vars

---------------------------------------------------------------------------
(* propagate_to_replicas seen line by line.  The write sequence is read,
   written and read again outside ack_lock, by the thread of every session
   that handles a write; only the entry of pending_acks is made under the
   lock. *)
SeqClients == {"c1", "c3"}
SeqReplicas == {"c2"}

\* self.write_sequence += 1, its read: the value is kept in target
PropLoad(c) ==
  /\ calls[c].pc = "propagate"
  /\ role = "master"
  /\ SetStep(c, "load", <<>>, NoPropagation,
             [calls[c] EXCEPT !.pc = "store", !.target = write_sequence])
  /\ StoreUntouched
  /\ UNCHANGED nops

\* self.write_sequence += 1, its write
PropStore(c) ==
  /\ calls[c].pc = "store"
  /\ SetStep(c, "store", <<>>, [NoPropagation EXCEPT !.ws = calls[c].target + 1],
             [calls[c] EXCEPT !.pc = "current"])
  /\ StoreUntouched
  /\ UNCHANGED nops

\* current_sequence = self.write_sequence, kept in ret
PropCurrent(c) ==
  /\ calls[c].pc = "current"
  /\ SetStep(c, "current", <<>>, NoPropagation,
             [calls[c] EXCEPT !.pc = "record", !.ret = write_sequence])
  /\ StoreUntouched
  /\ UNCHANGED nops

\* self.pending_acks[current_sequence] = set(self.replica_connections)
PropRecord(c) ==
  /\ calls[c].pc = "record"
  /\ SetStep(c, "record", <<>>,
             [NoPropagation EXCEPT !.pa = DictPut(pending_acks, calls[c].ret,
                                                  SetOf(replica_connections))],
             [calls[c] EXCEPT !.pc = "send"])
  /\ StoreUntouched
  /\ UNCHANGED nops

\* the loop of sendall over the replicas, and the call returns
PropSend(c) ==
  /\ calls[c].pc = "send"
  /\ LET p == PropagateLoop(1, SetPayload(calls[c].elems[2], calls[c].elems[3]),
                            NoPropagation)
     IN SetStep(c, "propagated", p.writes, p, [calls[c] EXCEPT !.pc = "idle"])
  /\ StoreUntouched
  /\ UNCHANGED nops

NextSeq ==
  \/ \E c \in SeqClients, elems \in SetInputs : SetApply(c, elems)
  \/ \E c \in SeqClients : SetReply(c)
  \/ \E c \in SeqClients : PropLoad(c)
  \/ \E c \in SeqClients : PropStore(c)
  \/ \E c \in SeqClients : PropCurrent(c)
  \/ \E c \in SeqClients : PropRecord(c)
  \/ \E c \in SeqClients : PropSend(c)
  \/ \E c \in SeqReplicas : ReplCommand(c, PsyncInput)

SpecSeq == Init /\ [][NextSeq]_vars

\* the propagate calls that have returned, when no handler is running: one
\* for every +OK written to a client
PropagateCalls == Len(sock["c1"]) + Len(sock["c3"])

(* C40: when k propagate calls have completed and none is running, the
   write sequence is k and pending_acks has one entry for each of the
   sequence numbers 1..k: no two calls used the same number. *)
C40_SequenceCountsWrites ==
  Quiet => /\ write_sequence = PropagateCalls
           /\ DOMAIN pending_acks = 1..PropagateCalls

====
